---- MODULE Spec2Model ----
(***************************************************************************)
(* Reminder cycle of services/reminder_bot.py: history load, task fetch,   *)
(* rule findings grouped by recipient, dedup filter, chat dispatch and     *)
(* batched persistence of the history records.                             *)
(*                                                                         *)
(* Time is counted in whole hours.  An instant is a number of hours on the *)
(* UTC axis; a datetime value keeps its wall clock and its UTC offset, so  *)
(* that formatting, parsing and time-zone conversion are real conversions. *)
(***************************************************************************)
EXTENDS Integers, Sequences, FiniteSets, TLC

VARIABLES now, db, cycle, pc, task_parallel, history_rows, history_loaded,
          tasks, pending, all_records, dispatched, skipped, dropped,
          count_attempt, count_sent, fetched, save, rule_in, rule_out

cycle_vars == << now, db, cycle, pc, task_parallel, history_rows, history_loaded,
                 tasks, pending, all_records, dispatched, skipped, dropped,
                 count_attempt, count_sent, fetched, save >>
rule_vars == << rule_in, rule_out >>

vars == << now, db, cycle, pc, task_parallel, history_rows, history_loaded,
           tasks, pending, all_records, dispatched, skipped, dropped,
           count_attempt, count_sent, fetched, save, rule_in, rule_out >>

(***************************************************************************)
(* Bounds of the model.                                                    *)
(***************************************************************************)
MaxCycles == 2
\* longest task list one search returns
MaxTasks == 2
\* tasks fetched over all cycles together
MaxFetched == 2
\* individual inserts that fail in one fallback
MaxInsertFailures == 1
\* last hour of the clock
MaxTime == 43

(***************************************************************************)
(* Program constants.                                                      *)
(***************************************************************************)
VN_OFFSET == 7
DayHours == 24
resend_after_hours == 3
HistoryLimit == 5000
SameDayLimit == 300

\* 22:00 local time of day 1: two hours before the local day changes,
\* while the UTC date stays the same for nine more hours.
StartTime == DayHours + 22 - VN_OFFSET

MISSING_LOGTIME == "missing_logtime"
MISSING_DESCRIPTION == "missing_description"
PRE_VERSION_REMINDER == "pre_version_reminder"
POST_VERSION_ALERT == "post_version_alert"
ASSIGNEE_CHANGED == "assignee_changed"
DUE_DATE_OVERDUE == "due_date_overdue"
RECENTLY_CREATED == "recently_created"

RuleCodes == { MISSING_LOGTIME, MISSING_DESCRIPTION, PRE_VERSION_REMINDER,
               POST_VERSION_ALERT, ASSIGNEE_CHANGED, DUE_DATE_OVERDUE,
               RECENTLY_CREATED }

\* two addresses of the allow-list and one address outside it
TEST_EMAILS == { "hangnt60@fpt.com", "nhutlm1@fpt.com" }
T1 == "hangnt60@fpt.com"
T2 == "nhutlm1@fpt.com"
Guest == "guest@fpt.com"
\* a listed address as Jira may spell it: padded and in mixed case
Padded == " HangNT60@FPT.com "
NoEmail == ""

(***************************************************************************)
(* Datetime values and their text form.                                    *)
(***************************************************************************)
Aware(instant, off) == [wall |-> instant + off, aware |-> TRUE, off |-> off]
Naive(wall) == [wall |-> wall, aware |-> FALSE, off |-> 0]

\* datetime.now(VN_TIMEZONE)
get_vn_now == Aware(now, VN_OFFSET)

\* dt.isoformat(): the wall clock followed by the offset, if there is one
isoformat(dt) == [text |-> "iso", dt |-> dt]
\* a text datetime.fromisoformat() rejects
BadText == [text |-> "bad", dt |-> Naive(0)]
CanParse(s) == s.text = "iso"
fromisoformat(s) == s.dt

\* dt.replace(tzinfo=VN_TIMEZONE): same wall clock, now read as local time
replace_tz_vn(dt) == [wall |-> dt.wall, aware |-> TRUE, off |-> VN_OFFSET]
\* position of an aware datetime on the UTC axis
Instant(dt) == dt.wall - dt.off
\* the date taken without the conversion to local time
LocalDate_utc(dt) == Instant(dt) \div DayHours
\* dt.astimezone(VN_TIMEZONE).date()
LocalDate(dt) == (Instant(dt) + VN_OFFSET) \div DayHours

\* str.upper() on the level names that occur
Upper(s) == CASE s = "info" -> "INFO"
              [] s = "warning" -> "WARNING"
              [] OTHER -> s

(***************************************************************************)
(* The log table (db/models/log.py) and the repository queries.            *)
(* A row's message is the JSON text of a history record (json = TRUE,      *)
(* carrying sent_at and status) or some other text (json = FALSE).         *)
(***************************************************************************)
Log(level, source, email, task_key, rule_type, created_at, json, sent_at, status) ==
    [level |-> level, source |-> source, email |-> email, task_key |-> task_key,
     rule_type |-> rule_type, created_at |-> created_at, json |-> json,
     sent_at |-> sent_at, status |-> status]

Min(a, b) == IF a < b THEN a ELSE b

\* ORDER BY created_at DESC; rows of equal created_at come newest id first
RECURSIVE OrderDesc(_, _)
OrderDesc(store, ids) ==
    IF ids = {} THEN << >>
    ELSE LET m == CHOOSE i \in ids : \A j \in ids \ {i} :
                      \/ store[i].created_at.wall > store[j].created_at.wall
                      \/ /\ store[i].created_at.wall = store[j].created_at.wall
                         /\ i > j
         IN << store[m] >> \o OrderDesc(store, ids \ {m})

\* .limit(n)
Limit(rows, n) == SubSeq(rows, 1, Min(n, Len(rows)))

list_by_source(store, source, limit) ==
    Limit(OrderDesc(store, {i \in DOMAIN store : store[i].source = source}), limit)

\* a filter is applied only when its argument is truthy
list_by_email_and_task(store, source, email, task_key, rule_type, limit) ==
    Limit(OrderDesc(store, {i \in DOMAIN store :
                               /\ store[i].source = source
                               /\ (email # "" => store[i].email = email)
                               /\ (task_key # "" => store[i].task_key = task_key)
                               /\ (rule_type # "" => store[i].rule_type = rule_type)}),
          limit)

(***************************************************************************)
(* _load_history: one history row per usable log of source reminder_bot.   *)
(* sent_at is the message's sent_at when the message is a record, else the *)
(* text of created_at.  A storage error yields the empty list.             *)
(***************************************************************************)
HistoryRow(log) ==
    [task_key |-> log.task_key, rule_type |-> log.rule_type, to |-> log.email,
     sent_at |-> IF log.json THEN log.sent_at ELSE isoformat(log.created_at),
     status |-> IF log.json THEN log.status ELSE ""]

RECURSIVE RowsOf(_)
RowsOf(logs) ==
    IF logs = << >> THEN << >>
    ELSE LET log == Head(logs)
         IN (IF log.email # "" /\ log.task_key # ""
             THEN << HistoryRow(log) >> ELSE << >>) \o RowsOf(Tail(logs))

_load_history(store, db_ok) ==
    IF db_ok THEN RowsOf(list_by_source(store, "reminder_bot", HistoryLimit))
    ELSE << >>

(***************************************************************************)
(* _already_sent: scan of the loaded rows, first recent match wins; a row  *)
(* whose sent_at does not parse is passed over.                            *)
(***************************************************************************)
RECURSIVE AlreadySentFrom(_, _, _, _, _, _, _)
AlreadySentFrom(rows, i, task_key, rule_code, to_value, hours, now_dt) ==
    IF i > Len(rows) THEN FALSE
    ELSE LET r == rows[i]
             next == AlreadySentFrom(rows, i + 1, task_key, rule_code, to_value, hours, now_dt)
         IN IF r.task_key = task_key /\ r.rule_type = rule_code /\ r.to = to_value
            THEN IF ~CanParse(r.sent_at) THEN next
                 ELSE LET parsed == fromisoformat(r.sent_at)
                          sent_at == IF parsed.aware THEN parsed ELSE replace_tz_vn(parsed)
                          time_diff == Instant(now_dt) - Instant(sent_at)
                      IN IF time_diff < hours THEN TRUE ELSE next
            ELSE next

\* the scan with the local wall clock taken for a UTC time
_already_sent_utc_now(rows, task_key, rule_code, to_value, hours) ==
    AlreadySentFrom(rows, 1, task_key, rule_code, to_value, hours,
                    Aware(now + VN_OFFSET, 0))

\* the scan with the window closed at its end (<= in place of <)
_already_sent_inclusive(rows, task_key, rule_code, to_value, hours) ==
    AlreadySentFrom(rows, 1, task_key, rule_code, to_value, hours + 1, get_vn_now)

_already_sent(rows, task_key, rule_code, to_value, hours) ==
    AlreadySentFrom(rows, 1, task_key, rule_code, to_value, hours, get_vn_now)

(***************************************************************************)
(* _already_logged_today_by_level: query of the table by task and rule,    *)
(* any recipient; a row matches when its local date is today's local date  *)
(* and its level equals the given one up to letter case.                   *)
(***************************************************************************)
RECURSIVE LoggedTodayFrom(_, _, _)
LoggedTodayFrom(logs, i, level) ==
    IF i > Len(logs) THEN FALSE
    ELSE LET log == logs[i]
             next == LoggedTodayFrom(logs, i + 1, level)
         IN IF log.level = "" THEN next
            ELSE LET ca_local == IF log.created_at.aware THEN log.created_at
                                 ELSE replace_tz_vn(log.created_at)
                 IN IF LocalDate(ca_local) = LocalDate(get_vn_now)
                       /\ Upper(log.level) = Upper(level)
                    THEN TRUE ELSE next

\* the same-day check that never finds a row
_already_logged_today_never(store, db_ok, task_key, rule_code, level) ==
    FALSE

_already_logged_today_by_level(store, db_ok, task_key, rule_code, level) ==
    IF ~db_ok THEN FALSE
    ELSE LoggedTodayFrom(list_by_email_and_task(store, "reminder_bot", "", task_key,
                                                rule_code, SameDayLimit), 1, level)

\* email.strip().lower(), for the addresses of the model
email_lower(email) == CASE email = Padded -> "hangnt60@fpt.com"
                        [] OTHER -> email

\* the body of is_test_email for a given allow-list
is_test_email_in(email, list) ==
    IF email = "" THEN FALSE
    ELSE IF list = {} THEN TRUE
    ELSE email_lower(email) \in { email_lower(test_email) : test_email \in list }

\* the gate without the allow-list: any address is let through
is_test_email_open(email) ==
    email # ""
\* is_test_email (services/rules.py)
is_test_email(email) ==
    is_test_email_in(email, TEST_EMAILS)

(***************************************************************************)
(* Issues as Jira returns them, reduced to what the cycle depends on: the  *)
(* key, the two addresses, whether worklog entries exist, whether the      *)
(* status is READY CI TESTING for longer than the wait window, whether the *)
(* changelog holds a recent assignee change, and the other rules that hit. *)
(***************************************************************************)
Issue(key, assignee, reporter, worklog, ci_stale, changed, hits) ==
    [key |-> key, assignee_email |-> assignee, reporter_email |-> reporter,
     worklog |-> worklog, ci_stale |-> ci_stale, changed |-> changed, hits |-> hits]

IssueCatalog ==
    { Issue("K1", T1, T2, FALSE, FALSE, FALSE, {PRE_VERSION_REMINDER}),
      Issue("K1", T1, T2, FALSE, TRUE, FALSE, {PRE_VERSION_REMINDER}),
      Issue("K2", NoEmail, T2, FALSE, FALSE, FALSE,
            {MISSING_DESCRIPTION, POST_VERSION_ALERT}),
      Issue("K3", NoEmail, NoEmail, FALSE, FALSE, FALSE,
            {MISSING_DESCRIPTION, RECENTLY_CREATED}),
      Issue("K4", Guest, T1, TRUE, TRUE, TRUE,
            {MISSING_DESCRIPTION, DUE_DATE_OVERDUE}),
      Issue("K5", Padded, NoEmail, TRUE, FALSE, FALSE, {DUE_DATE_OVERDUE}) }

FetchOutcomes == {"ok", "status_err", "net_err"}

\* JiraClient.get_worklog: a non-200 answer gives the empty list; the
\* request itself is not guarded, so a network error leaves the function
\* as an exception ("raise")
get_worklog(issue, outcome) ==
    CASE outcome = "ok" -> IF issue.worklog THEN "entries" ELSE "empty"
      [] outcome = "status_err" -> "empty"
      [] OTHER -> "raise"

\* JiraClient.build_task_object with the worklog answer it obtained
build_task_object(issue, worklogs) ==
    [key |-> issue.key, assignee_email |-> issue.assignee_email,
     reporter_email |-> issue.reporter_email,
     has_worklog |-> (worklogs = "entries"),
     ci_stale |-> issue.ci_stale, changed |-> issue.changed, hits |-> issue.hits,
     last_assignee_changed_at |-> "None"]

\* JiraClient.get_last_assignee_change: every failure is caught and gives None
get_last_assignee_change(task, outcome) ==
    IF outcome = "ok" /\ task.changed THEN "recent" ELSE "None"

(***************************************************************************)
(* process_task, first half: findings in the order the rules are run,      *)
(* recipients resolved, findings grouped by recipient.                     *)
(***************************************************************************)
Finding(code, data, recipient) == [code |-> code, data |-> data, recipient |-> recipient]

Hit(cond, code, data, recipient) ==
    IF cond THEN << Finding(code, data, recipient) >> ELSE << >>

\* the lazy changelog fetch: only for a task with an assignee, and the
\* answer is kept in the task
LazyChangelog(task, changelog) ==
    IF task.assignee_email # "" /\ task.last_assignee_changed_at = "None"
    THEN [task EXCEPT !.last_assignee_changed_at = get_last_assignee_change(task, changelog)]
    ELSE task

Findings(task) ==
    LET changed_at == task.last_assignee_changed_at
    IN Hit(task.ci_stale /\ ~task.has_worklog, MISSING_LOGTIME, "None", task.assignee_email)
       \o Hit(MISSING_DESCRIPTION \in task.hits, MISSING_DESCRIPTION, "None", task.reporter_email)
       \o Hit(PRE_VERSION_REMINDER \in task.hits, PRE_VERSION_REMINDER, "payload", task.assignee_email)
       \o Hit(POST_VERSION_ALERT \in task.hits, POST_VERSION_ALERT, "payload", task.assignee_email)
       \o Hit(DUE_DATE_OVERDUE \in task.hits, DUE_DATE_OVERDUE, "payload", task.assignee_email)
       \o Hit(task.assignee_email # "" /\ changed_at = "recent",
              ASSIGNEE_CHANGED, "payload", task.assignee_email)
       \o Hit(RECENTLY_CREATED \in task.hits, RECENTLY_CREATED, "payload",
              IF task.assignee_email # "" THEN task.assignee_email ELSE task.reporter_email)

\* a finding without recipient goes to the reporter
\* the resolution without the fallback to the reporter
ResolveRecipient_no_fallback(task, f) == f.recipient

ResolveRecipient(task, f) ==
    IF f.recipient # "" THEN f.recipient ELSE task.reporter_email

RECURSIVE Normalized(_, _)
Normalized(task, fs) ==
    IF fs = << >> THEN << >>
    ELSE LET to == ResolveRecipient(task, Head(fs))
         IN (IF to = "" THEN << >>
             ELSE << Finding(Head(fs).code, Head(fs).data, to) >>)
            \o Normalized(task, Tail(fs))

\* findings that are dropped for want of a recipient
Unaddressed(task, fs) ==
    { [task_key |-> task.key, rule_type |-> fs[i].code] :
        i \in { j \in DOMAIN fs : ResolveRecipient(task, fs[j]) = "" } }

\* keys of the dict recipient_findings, in insertion order
RECURSIVE GroupOrder(_, _)
GroupOrder(nfs, seen) ==
    IF nfs = << >> THEN << >>
    ELSE IF Head(nfs).recipient \in seen THEN GroupOrder(Tail(nfs), seen)
    ELSE << Head(nfs).recipient >>
         \o GroupOrder(Tail(nfs), seen \cup {Head(nfs).recipient})

GroupOf(nfs, to) == SelectSeq(nfs, LAMBDA f : f.recipient = to)

Codes(group) == [i \in DOMAIN group |-> group[i].code]

(***************************************************************************)
(* Message texts, reduced to their form and the bullets they carry.        *)
(***************************************************************************)
NeedsData(code) == code \notin {MISSING_LOGTIME, MISSING_DESCRIPTION}

\* the payload of a finding: None, the empty dict, the dict the evaluator
\* returns, or that dict without one of its keys
Payloads == { "None", "empty", "payload", "no_fv_name", "no_days", "no_release_date" }
\* bool(data)
HasData(data) == data \notin {"None", "empty"}
\* data['fv_name'], data['days'] and data['release_date'] of the two
\* version templates raise KeyError for a key the dict lacks
LacksKey(code, data) ==
    \/ code = PRE_VERSION_REMINDER /\ data \in {"no_fv_name", "no_days"}
    \/ code = POST_VERSION_ALERT /\ data \in {"no_fv_name", "no_release_date"}
KeyError(task) == [form |-> "KeyError", key |-> task.key, bullets |-> << >>]

build_message(task, code, data) ==
    IF NeedsData(code) /\ ~HasData(data)
    THEN [form |-> "generic", key |-> task.key, bullets |-> << >>]
    ELSE IF LacksKey(code, data) THEN KeyError(task)
    ELSE [form |-> "single", key |-> task.key, bullets |-> << code >>]

\* the combined text with a bullet only for the findings that carry data
build_combined_message_data_only(task, group) ==
    LET messages == Codes(SelectSeq(group, LAMBDA f : f.data # "None"))
    IN IF messages # << >>
       THEN [form |-> "combined", key |-> task.key, bullets |-> messages]
       ELSE [form |-> "generic", key |-> task.key, bullets |-> << >>]

build_combined_message(task, group) ==
    LET messages == Codes(SelectSeq(group,
                        LAMBDA f : ~NeedsData(f.code) \/ HasData(f.data)))
    IN IF \E i \in DOMAIN group : HasData(group[i].data)
                                      /\ LacksKey(group[i].code, group[i].data)
       THEN KeyError(task)
       ELSE IF messages # << >>
       THEN [form |-> "combined", key |-> task.key, bullets |-> messages]
       ELSE [form |-> "generic", key |-> task.key, bullets |-> << >>]

(***************************************************************************)
(* process_task, second half: per recipient the test-recipient gate, the   *)
(* dedup filter over all findings of the group, one dispatch, one history  *)
(* record per finding.                                                     *)
(***************************************************************************)
NoSkip == [skip |-> FALSE, rule |-> "", reason |-> ""]

\* the loop over the findings of one group: the hour-based check on the
\* rows loaded at the start of the cycle, then the same-day check on the table
RECURSIVE DedupFrom(_, _, _, _, _, _)
DedupFrom(rows, store, db_ok, key, group, i) ==
    IF i > Len(group) THEN NoSkip
    ELSE IF _already_sent(rows, key, group[i].code, group[i].recipient, resend_after_hours)
         THEN [skip |-> TRUE, rule |-> group[i].code, reason |-> "already_sent"]
    ELSE IF _already_logged_today_by_level(store, db_ok, key, group[i].code, "INFO")
         THEN [skip |-> TRUE, rule |-> group[i].code, reason |-> "same_day"]
    ELSE DedupFrom(rows, store, db_ok, key, group, i + 1)

\* the check made on the first finding of the group alone
DedupCheck_first_only(rows, store, db_ok, key, group) ==
    DedupFrom(rows, store, db_ok, key, SubSeq(group, 1, 1), 1)

DedupCheck(rows, store, db_ok, key, group) ==
    DedupFrom(rows, store, db_ok, key, group, 1)

\* the record written as sent whatever the dispatch returned
Record_always_sent(key, code, to, ok) ==
    [task_key |-> key, rule_type |-> code, to |-> to,
     sent_at |-> isoformat(get_vn_now), status |-> "sent"]

Record(key, code, to, ok) ==
    [task_key |-> key, rule_type |-> code, to |-> to,
     sent_at |-> isoformat(get_vn_now),
     status |-> IF ok THEN "sent" ELSE "failed"]

NoOutput == [disp |-> << >>, recs |-> << >>, skip |-> {}]

\* one pass of the loop "for recipient_email, recipient_finding_list in ..."
\* The entries of dispatched and skipped carry, besides what the code prints,
\* the position idx of the task in the list and whether the table could be
\* read while the group was checked (db_ok).
GroupOutput(rows, store, idx, task, group, to, ok, db_ok) ==
    IF ~is_test_email(to)
    THEN [disp |-> << >>, recs |-> << >>,
          skip |-> {[idx |-> idx, task_key |-> task.key, to |-> to, rule |-> "",
                     reason |-> "test_email", rules |-> Codes(group), db_ok |-> TRUE]}]
    ELSE LET d == DedupCheck(rows, store, db_ok, task.key, group)
         IN IF d.skip
            THEN [disp |-> << >>, recs |-> << >>,
                  skip |-> {[idx |-> idx, task_key |-> task.key, to |-> to, rule |-> d.rule,
                             reason |-> d.reason, rules |-> Codes(group), db_ok |-> db_ok]}]
            ELSE [disp |-> << [idx |-> idx, db_ok |-> db_ok,
                               task_key |-> task.key, to |-> to,
                               text |-> IF Len(group) = 1
                                        THEN build_message(task, group[1].code, group[1].data)
                                        ELSE build_combined_message(task, group),
                               rules |-> Codes(group), ok |-> ok] >>,
                  recs |-> [i \in DOMAIN group |-> Record(task.key, group[i].code, to, ok)],
                  skip |-> {}]

RECURSIVE GroupsOutput(_, _, _, _, _, _, _, _)
GroupsOutput(rows, store, idx, task, nfs, order, ok, db_ok) ==
    IF order = << >> THEN NoOutput
    ELSE LET to == Head(order)
             one == GroupOutput(rows, store, idx, task, GroupOf(nfs, to), to, ok[to], db_ok[to])
             rest == GroupsOutput(rows, store, idx, task, nfs, Tail(order), ok, db_ok)
         IN [disp |-> one.disp \o rest.disp, recs |-> one.recs \o rest.recs,
             skip |-> one.skip \cup rest.skip]

\* ok[to]: outcome of send_message_fpt for the group of recipient to;
\* db_ok[to]: whether the table can be read while that group is checked
\* task: the task after the lazy changelog fetch
process_task(rows, store, idx, task, ok, db_ok) ==
    LET nfs == Normalized(task, Findings(task))
    IN GroupsOutput(rows, store, idx, task, nfs, GroupOrder(nfs, {}), ok, db_ok)

Recipients(task) ==
    LET nfs == Normalized(task, Findings(task))
    IN { nfs[i].recipient : i \in DOMAIN nfs }

(***************************************************************************)
(* Rows already in the table when the bot starts.  The table is also       *)
(* written through POST /logs, with any level, source and message.         *)
(***************************************************************************)
Yesterday == Naive(StartTime + VN_OFFSET - DayHours)
InitLogs ==
    << \* a record of the bot whose sent_at was damaged
       Log("INFO", "reminder_bot", T1, "K1", MISSING_LOGTIME, Yesterday,
           TRUE, BadText, "sent"),
       \* a log of another source for the same task and rule, dated today
       Log("INFO", "api", T2, "K2", MISSING_DESCRIPTION,
           Naive(StartTime + VN_OFFSET), FALSE, BadText, ""),
       \* a record whose sent_at was written with a UTC offset, two hours
       \* before the start, logged at level "info" one hour before the start
       Log("info", "reminder_bot", T1, "K4", MISSING_DESCRIPTION,
           Naive(StartTime + VN_OFFSET - 1), TRUE,
           isoformat(Aware(StartTime - 2, 0)), "sent") >>

(***************************************************************************)
(* The cycle.                                                              *)
(***************************************************************************)
\* what the end of run_once did with the collected records: the outcome of
\* the batch insert, the records then inserted one by one, in order, and
\* those among them whose insert failed
NoSave == [batch |-> "none", attempts |-> << >>, failed |-> {}]

\* input and results of the rule evaluators, unused by the cycle
NoInput == [task |-> "none", conf |-> "none"]
NoResults == [code \in RuleCodes |-> [kind |-> "pending", n |-> 0]]

Init ==
    /\ now = StartTime
    /\ db = InitLogs
    /\ cycle = 0
    /\ pc = "idle"
    /\ task_parallel \in BOOLEAN
    /\ history_rows = << >>
    /\ history_loaded = FALSE
    /\ tasks = << >>
    /\ pending = {}
    /\ all_records = << >>
    /\ dispatched = << >>
    /\ skipped = {}
    /\ dropped = {}
    /\ count_attempt = 0
    /\ count_sent = 0
    /\ fetched = 0
    /\ save = NoSave
    /\ rule_in = NoInput
    /\ rule_out = NoResults

\* time passes between two cycles
Tick ==
    /\ pc \in {"idle", "aborted"}
    /\ \E d \in {1, 2} :
         /\ now + d <= MaxTime
         /\ now' = now + d
    /\ UNCHANGED << db, cycle, pc, task_parallel, history_rows, history_loaded,
                    tasks, pending, all_records, dispatched, skipped, dropped,
                    count_attempt, count_sent, fetched, save >>
    /\ UNCHANGED rule_vars

\* run_once up to the history load
StartCycle ==
    /\ pc \in {"idle", "aborted"}
    /\ cycle < MaxCycles
    /\ cycle' = cycle + 1
    /\ \E db_ok \in BOOLEAN :
         /\ history_rows' = _load_history(db, db_ok)
         /\ history_loaded' = db_ok
    /\ tasks' = << >>
    /\ pending' = {}
    /\ all_records' = << >>
    /\ dispatched' = << >>
    /\ skipped' = {}
    /\ dropped' = {}
    /\ count_attempt' = 0
    /\ count_sent' = 0
    /\ pc' = "fetch"
    /\ UNCHANGED << now, db, task_parallel, fetched, save >>
    /\ UNCHANGED rule_vars

IssueLists(budget) == UNION { [1..n -> IssueCatalog] : n \in 0..Min(MaxTasks, budget) }

\* search_recent_tasks: every issue found is normalized, its worklog fetched
FetchTasks ==
    /\ pc = "fetch"
    /\ \E issues \in IssueLists(MaxFetched - fetched) :
         \E outcome \in [DOMAIN issues -> {"ok", "status_err"}] :
            /\ tasks' = [i \in DOMAIN issues |->
                           build_task_object(issues[i], get_worklog(issues[i], outcome[i]))]
            /\ pending' = DOMAIN issues
            /\ fetched' = fetched + Len(issues)
    /\ pc' = "process"
    /\ UNCHANGED << now, db, cycle, task_parallel, history_rows, history_loaded,
                    all_records, dispatched, skipped, dropped, count_attempt,
                    count_sent, save >>
    /\ UNCHANGED rule_vars

\* search_recent_tasks when a worklog request raises: nothing catches the
\* exception, neither build_task_object nor search_recent_tasks nor run_once
FetchRaises ==
    /\ pc = "fetch"
    /\ \E issues \in IssueLists(MaxFetched - fetched) :
         \E outcome \in [DOMAIN issues -> FetchOutcomes] :
            \E i \in DOMAIN issues : get_worklog(issues[i], outcome[i]) = "raise"
    /\ history_rows' = << >>
    /\ history_loaded' = FALSE
    /\ pc' = "aborted"
    /\ UNCHANGED << now, db, cycle, task_parallel, tasks, pending, all_records,
                    dispatched, skipped, dropped, count_attempt, count_sent, fetched,
                    save >>
    /\ UNCHANGED rule_vars

CountStatus(recs, statuses) ==
    Cardinality({ i \in DOMAIN recs : recs[i].status \in statuses })

\* the pool with every worker writing its own list: the records of the task
\* that completes replace what was collected before
ProcessTask_unlocked(i) ==
    /\ pc = "process"
    /\ i \in pending
    /\ (task_parallel /\ Len(tasks) > 1) \/ (\A j \in pending : i <= j)
    /\ \E changelog \in {"ok", "fail"} :
         LET task == LazyChangelog(tasks[i], changelog)
             rcpts == Recipients(task)
         IN \E ok \in [rcpts -> BOOLEAN], db_ok \in [rcpts -> BOOLEAN] :
              LET out == process_task(history_rows, db, i, task, ok, db_ok)
              IN /\ tasks' = [tasks EXCEPT ![i] = task]
                 /\ dispatched' = dispatched \o out.disp
                 /\ all_records' = IF task_parallel THEN out.recs ELSE all_records \o out.recs
                 /\ skipped' = skipped \cup out.skip
                 /\ dropped' = dropped \cup Unaddressed(task, Findings(task))
                 /\ count_attempt' = count_attempt + CountStatus(out.recs, {"sent", "failed"})
                 /\ count_sent' = count_sent + CountStatus(out.recs, {"sent"})
    /\ pending' = pending \ {i}
    /\ UNCHANGED << now, db, cycle, pc, task_parallel, history_rows, history_loaded,
                    fetched, save >>
    /\ UNCHANGED rule_vars

\* process_task for the task at position i and the collection of its records;
\* the pool takes the tasks in any order, the sequential loop in list order
ProcessTask(i) ==
    /\ pc = "process"
    /\ i \in pending
    /\ (task_parallel /\ Len(tasks) > 1) \/ (\A j \in pending : i <= j)
    /\ \E changelog \in {"ok", "fail"} :
         LET task == LazyChangelog(tasks[i], changelog)
             rcpts == Recipients(task)
         IN \E ok \in [rcpts -> BOOLEAN], db_ok \in [rcpts -> BOOLEAN] :
              LET out == process_task(history_rows, db, i, task, ok, db_ok)
              IN /\ tasks' = [tasks EXCEPT ![i] = task]
                 /\ dispatched' = dispatched \o out.disp
                 /\ all_records' = all_records \o out.recs
                 /\ skipped' = skipped \cup out.skip
                 /\ dropped' = dropped \cup Unaddressed(task, Findings(task))
                 /\ count_attempt' = count_attempt + CountStatus(out.recs, {"sent", "failed"})
                 /\ count_sent' = count_sent + CountStatus(out.recs, {"sent"})
    /\ pending' = pending \ {i}
    /\ UNCHANGED << now, db, cycle, pc, task_parallel, history_rows, history_loaded,
                    fetched, save >>
    /\ UNCHANGED rule_vars

\* the row create_logs_batch / _append_history_service writes for a record
LogOf(record) ==
    Log(IF record.status = "sent" THEN "INFO" ELSE "WARNING", "reminder_bot",
        record.to, record.task_key, record.rule_type,
        Naive(now + VN_OFFSET), TRUE, record.sent_at, record.status)

RECURSIVE LogsOf(_, _, _)
LogsOf(recs, keep, i) ==
    IF i > Len(recs) THEN << >>
    ELSE (IF keep[i] THEN << LogOf(recs[i]) >> ELSE << >>) \o LogsOf(recs, keep, i + 1)

\* the loop left at the first insert that fails
RECURSIVE Fallback_stop_at_failure(_, _, _)
Fallback_stop_at_failure(recs, keep, i) ==
    IF i > Len(recs) THEN NoSave
    ELSE IF ~keep[i]
         THEN [batch |-> "failed", attempts |-> << i >>, failed |-> i..Len(recs)]
         ELSE LET rest == Fallback_stop_at_failure(recs, keep, i + 1)
              IN [batch |-> "failed",
                  attempts |-> << i >> \o rest.attempts,
                  failed |-> rest.failed]

\* the fallback loop: one _append_history_service call per record, in list
\* order; a call that fails is logged and the loop goes on
RECURSIVE Fallback(_, _, _)
Fallback(recs, keep, i) ==
    IF i > Len(recs) THEN NoSave
    ELSE LET rest == Fallback(recs, keep, i + 1)
         IN [batch |-> "failed",
             attempts |-> << i >> \o rest.attempts,
             failed |-> (IF keep[i] THEN {} ELSE {i}) \cup rest.failed]

\* saving of all_records at the end of run_once: one batch insert; if it
\* fails, one insert per record, each of which may fail on its own
Persist ==
    /\ pc = "process"
    /\ pending = {}
    /\ \E batch_ok \in BOOLEAN, keep \in [DOMAIN all_records -> BOOLEAN] :
         /\ batch_ok => \A i \in DOMAIN all_records : keep[i]
         /\ Cardinality({i \in DOMAIN all_records : ~keep[i]}) <= MaxInsertFailures
         /\ save' = IF all_records = << >> THEN NoSave
                    ELSE IF batch_ok THEN [NoSave EXCEPT !.batch = "ok"]
                    ELSE Fallback(all_records, keep, 1)
         /\ db' = db \o LogsOf(all_records, [i \in DOMAIN all_records |-> i \notin save'.failed], 1)
    /\ pc' = "done"
    /\ UNCHANGED << now, cycle, task_parallel, history_rows, history_loaded, tasks,
                    pending, all_records, dispatched, skipped, dropped,
                    count_attempt, count_sent, fetched >>
    /\ UNCHANGED rule_vars

\* last lines of run_once: the counts are reported and its locals end
Report ==
    /\ pc = "done"
    /\ history_rows' = << >>
    /\ history_loaded' = FALSE
    /\ tasks' = << >>
    /\ all_records' = << >>
    /\ dispatched' = << >>
    /\ skipped' = {}
    /\ dropped' = {}
    /\ count_attempt' = 0
    /\ count_sent' = 0
    /\ save' = NoSave
    /\ pc' = "idle"
    /\ UNCHANGED << now, db, cycle, task_parallel, pending, fetched >>
    /\ UNCHANGED rule_vars

Next ==
    \/ Tick
    \/ StartCycle
    \/ FetchTasks
    \/ FetchRaises
    \/ \E i \in 1..MaxTasks : ProcessTask(i)
    \/ Persist
    \/ Report

Spec == Init /\ [][Next]_vars

(***************************************************************************)
(* Rule evaluators of services/rules.py.  A text is a sequence of          *)
(* characters, so that strip, upper and substring search are computed.     *)
(* A field of a task is a Python value: None, a text or a number.          *)
(***************************************************************************)
LowerCase ==
   << "a", "b", "c", "d", "e", "f", "g", "h", "i", "j", "k", "l", "m", "n",
      "o", "p", "q", "r", "s", "t", "u", "v", "w", "x", "y", "z" >>
UpperCase ==
   << "A", "B", "C", "D", "E", "F", "G", "H", "I", "J", "K", "L", "M", "N",
      "O", "P", "Q", "R", "S", "T", "U", "V", "W", "X", "Y", "Z" >>

UpperChar(c) ==
    IF \E i \in DOMAIN LowerCase : LowerCase[i] = c
    THEN UpperCase[CHOOSE i \in DOMAIN LowerCase : LowerCase[i] = c]
    ELSE c
\* s.upper()
str_upper(s) == [i \in DOMAIN s |-> UpperChar(s[i])]

IsSpace(c) == c \in {" ", "\t", "\n"}
RECURSIVE lstrip(_)
lstrip(s) == IF s # << >> /\ IsSpace(Head(s)) THEN lstrip(Tail(s)) ELSE s
RECURSIVE rstrip(_)
rstrip(s) ==
    IF s # << >> /\ IsSpace(s[Len(s)]) THEN rstrip(SubSeq(s, 1, Len(s) - 1)) ELSE s
\* s.strip()
str_strip(s) == rstrip(lstrip(s))
\* needle in hay
str_contains(needle, hay) ==
    \E i \in 1..(Len(hay) - Len(needle) + 1) :
       SubSeq(hay, i, i + Len(needle) - 1) = needle

PyNone == [type |-> "none", s |-> << >>, n |-> 0]
PyStr(s) == [type |-> "str", s |-> s, n |-> 0]
PyInt(n) == [type |-> "int", s |-> << >>, n |-> n]
\* bool(v)
Truthy(v) == (v.type = "str" /\ v.s # << >>) \/ (v.type = "int" /\ v.n # 0)
\* str(v) of a text or of a one-digit number
str(v) == IF v.type = "str" THEN v.s
          ELSE IF v.type = "int"
               THEN << << "0", "1", "2", "3", "4", "5", "6", "7", "8", "9" >>[v.n + 1] >>
          ELSE << "N", "o", "n", "e" >>

READY_CI_TESTING ==
   << "R", "E", "A", "D", "Y", " ", "C", "I", " ", "T", "E", "S", "T", "I",
      "N", "G" >>
CI_Testing ==
   << "C", "I", " ", "T", "e", "s", "t", "i", "n", "g" >>
ready_ci_testing_padded ==
   << " ", "r", "e", "a", "d", "y", " ", "c", "i", " ", "t", "e", "s", "t",
      "i", "n", "g", " " >>
ALREADY_CI_TESTING_DONE ==
   << "A", "L", "R", "E", "A", "D", "Y", " ", "C", "I", " ", "T", "E", "S",
      "T", "I", "N", "G", " ", "D", "O", "N", "E" >>
OPEN ==
   << "O", "P", "E", "N" >>
UAT ==
   << "U", "A", "T" >>
uat_testing ==
   << "u", "a", "t", " ", "t", "e", "s", "t", "i", "n", "g" >>
COMPLETE ==
   << "C", "O", "M", "P", "L", "E", "T", "E" >>
Complete_padded ==
   << " ", "C", "o", "m", "p", "l", "e", "t", "e", " " >>
IPTPE_TADS ==
   << "I", "P", "T", "P", "E", ",", "T", "A", "D", "S" >>
iptpe_tads ==
   << "i", "p", "t", "p", "e", ",", "t", "a", "d", "s" >>
TADS ==
   << "T", "A", "D", "S" >>
PPFP ==
   << "P", "P", "F", "P" >>

\* RULE_EXCLUDED_PROJECTS and RULE_INCLUDED_PROJECTS: each configured list
\* holds one text, "IPTPE,TADS"
RULE_EXCLUDED_PROJECTS(code) ==
    IF code \in {MISSING_LOGTIME, PRE_VERSION_REMINDER, POST_VERSION_ALERT}
    THEN {IPTPE_TADS} ELSE {}
RULE_INCLUDED_PROJECTS(code) ==
    IF code = DUE_DATE_OVERDUE THEN {IPTPE_TADS} ELSE {}

\* the project compared as it is written
is_project_excluded_exact(project, code) ==
    IF ~Truthy(project) THEN FALSE
    ELSE IF RULE_EXCLUDED_PROJECTS(code) = {} THEN FALSE
    ELSE str(project) \in RULE_EXCLUDED_PROJECTS(code)

is_project_excluded(project, code) ==
    IF ~Truthy(project) THEN FALSE
    ELSE IF RULE_EXCLUDED_PROJECTS(code) = {} THEN FALSE
    ELSE str_upper(str_strip(str(project)))
            \in { str_upper(p) : p \in RULE_EXCLUDED_PROJECTS(code) }

is_project_allowed(project, code) ==
    IF RULE_INCLUDED_PROJECTS(code) = {} THEN TRUE
    ELSE IF ~Truthy(project) THEN FALSE
    ELSE str_upper(str_strip(str(project)))
            \in { str_upper(p) : p \in RULE_INCLUDED_PROJECTS(code) }

InScope(task, code) ==
    is_project_allowed(task.project, code) /\ ~is_project_excluded(task.project, code)

(***************************************************************************)
(* Timestamps of a task.  A text timestamp has a form: seconds with UTC    *)
(* offset, fraction of a second with UTC offset, seconds without offset,   *)
(* a date alone, the empty text, or text that is no timestamp.  A field    *)
(* may also hold None, a number, a datetime object or a date object.       *)
(***************************************************************************)
NoDt == Naive(0)
StampNone == [type |-> "none", form |-> "-", dt |-> NoDt]
StampInt == [type |-> "int", form |-> "-", dt |-> NoDt]
StampEmpty == [type |-> "str", form |-> "empty", dt |-> NoDt]
StampBad == [type |-> "str", form |-> "bad", dt |-> NoDt]
StampText(form, dt) == [type |-> "str", form |-> form, dt |-> dt]
StampObject(dt) == [type |-> "datetime", form |-> "-", dt |-> dt]
\* a date, as text or as an object, is the midnight that starts it
StampDate(type, day) ==
    [type |-> type, form |-> (IF type = "str" THEN "date" ELSE "-"),
     dt |-> Naive(day * DayHours)]

StampTruthy(v) ==
    /\ v.type # "none"
    /\ ~(v.type = "str" /\ v.form = "empty")

Failed == [ok |-> FALSE, dt |-> NoDt]
\* datetime.strptime(v, fmt): a value that is no text raises TypeError, a
\* text of another form raises ValueError; both are caught by the callers
strptime(v, fmt) ==
    IF v.type = "str" /\ v.form = fmt THEN [ok |-> TRUE, dt |-> v.dt] ELSE Failed
\* datetime.fromisoformat(text)
parse_iso(v) ==
    IF v.type = "str" /\ v.form \in {"sec_tz", "frac_tz", "sec_naive", "date"}
    THEN [ok |-> TRUE, dt |-> v.dt] ELSE Failed
\* the first format of the list that parses the value
RECURSIVE FirstParse(_, _)
FirstParse(v, fmts) ==
    IF fmts = << >> THEN Failed
    ELSE IF strptime(v, Head(fmts)).ok THEN strptime(v, Head(fmts))
    ELSE FirstParse(v, Tail(fmts))

\* dt.date() of the wall clock
WallDate(dt) == dt.wall \div DayHours
\* get_vn_now().date()
Today == WallDate(get_vn_now)

NoHit == [kind |-> "none", n |-> 0]
RuleHit(n) == [kind |-> "hit", n |-> n]
Raises == [kind |-> "raise", n |-> 0]

\* now - changed_at compared with the window: subtracting a datetime
\* without offset from the zone-aware now raises TypeError
Elapsed(dt) == now - Instant(dt)

\* (status_raw or "").strip().upper()
status_norm(task) ==
    IF Truthy(task.status) THEN str_upper(str_strip(task.status.s)) ELSE << >>

\* build_task_object: fields.get("statuscategorychangedate") or ""
last_status_change(raw) == IF StampTruthy(raw) THEN raw ELSE StampEmpty

\* the hit taken only when the wait is exceeded, not when it is reached
evaluate_missing_logtime_strict(task, ci_testing_wait) ==
    IF ~InScope(task, MISSING_LOGTIME) THEN NoHit
    ELSE IF ~str_contains(READY_CI_TESTING, status_norm(task)) THEN NoHit
    ELSE IF task.has_worklog THEN NoHit
    ELSE IF ~StampTruthy(task.last_status_changed_at) THEN RuleHit(0)
    ELSE LET changed_at == FirstParse(task.last_status_changed_at,
                                      << "sec_tz", "sec_naive" >>)
         IN IF ~changed_at.ok THEN RuleHit(0)
            ELSE IF ~changed_at.dt.aware THEN Raises
            ELSE IF Elapsed(changed_at.dt) > ci_testing_wait THEN RuleHit(0)
            ELSE NoHit

evaluate_missing_logtime(task, ci_testing_wait) ==
    IF ~InScope(task, MISSING_LOGTIME) THEN NoHit
    ELSE IF ~str_contains(READY_CI_TESTING, status_norm(task)) THEN NoHit
    ELSE IF task.has_worklog THEN NoHit
    ELSE IF ~StampTruthy(task.last_status_changed_at) THEN RuleHit(0)
    ELSE LET changed_at == FirstParse(task.last_status_changed_at,
                                      << "sec_tz", "sec_naive" >>)
         IN IF ~changed_at.ok THEN RuleHit(0)
            ELSE IF ~changed_at.dt.aware THEN Raises
            ELSE IF Elapsed(changed_at.dt) >= ci_testing_wait THEN RuleHit(0)
            ELSE NoHit

\* the description compared without stripping it
evaluate_missing_description_no_strip(task) ==
    IF ~InScope(task, MISSING_DESCRIPTION) THEN NoHit
    ELSE IF task.description.type = "none" THEN RuleHit(0)
    ELSE IF str(task.description) = << >> THEN RuleHit(0)
    ELSE NoHit

evaluate_missing_description(task) ==
    IF ~InScope(task, MISSING_DESCRIPTION) THEN NoHit
    ELSE IF task.description.type = "none" THEN RuleHit(0)
    ELSE IF str_strip(str(task.description)) = << >> THEN RuleHit(0)
    ELSE NoHit

(***************************************************************************)
(* A fix-version has a name, which is empty, carries no 8-digit token,     *)
(* carries one that is a date, or carries one that is no date; and it may  *)
(* have a release date in fixVersion_dates.                                *)
(***************************************************************************)
FixVersion(kind, day, fallback) == [kind |-> kind, day |-> day, fallback |-> fallback]
NoDay == [ok |-> FALSE, day |-> 0]

\* the date of the name alone
ReleaseDay_name_only(fv) ==
    IF fv.kind = "dated" THEN [ok |-> TRUE, day |-> fv.day] ELSE NoDay

\* _parse_date_from_fixversion_name, then the fallback on fixVersion_dates
ReleaseDay(fv) ==
    IF fv.kind = "empty" THEN NoDay
    ELSE IF fv.kind = "dated" THEN [ok |-> TRUE, day |-> fv.day]
    ELSE IF ~StampTruthy(fv.fallback) THEN NoDay
    ELSE IF ~parse_iso(fv.fallback).ok THEN NoDay
    ELSE [ok |-> TRUE, day |-> WallDate(parse_iso(fv.fallback).dt)]

deploy_uat_statuses ==
    { << "D", "E", "P", "L", "O", "Y", "I", "N", "G" >>,
      UAT,
      << "U", "A", "T", " ", "T", "E", "S", "T", "I", "N", "G" >>,
      << "R", "E", "A", "D", "Y", " ", "U", "A", "T" >> }
\* the window of days the status-aware branch looks ahead
PreWindowDays == 2

RECURSIVE PreVersionFrom(_, _, _)
PreVersionFrom(task, fvs, pre_version_days) ==
    IF fvs = << >> THEN NoHit
    ELSE LET release == ReleaseDay(Head(fvs))
             days_until == release.day - Today
         IN IF ~release.ok THEN PreVersionFrom(task, Tail(fvs), pre_version_days)
            ELSE IF /\ 0 <= days_until /\ days_until <= PreWindowDays
                    /\ status_norm(task) \notin deploy_uat_statuses
                 THEN RuleHit(days_until)
            ELSE IF 0 < days_until /\ days_until <= pre_version_days
                 THEN RuleHit(days_until)
            ELSE PreVersionFrom(task, Tail(fvs), pre_version_days)

evaluate_pre_version_reminder(task, pre_version_days) ==
    IF ~InScope(task, PRE_VERSION_REMINDER) THEN NoHit
    ELSE PreVersionFrom(task, task.fixVersions, pre_version_days)

RECURSIVE PostVersionFrom(_)
PostVersionFrom(fvs) ==
    IF fvs = << >> THEN NoHit
    ELSE LET release == ReleaseDay(Head(fvs))
         IN IF release.ok /\ Today > release.day THEN RuleHit(0)
            ELSE PostVersionFrom(Tail(fvs))

\* the alert raised from the release day on
evaluate_post_version_alert_from_release_day(task) ==
    IF ~InScope(task, POST_VERSION_ALERT) THEN NoHit
    ELSE IF task.fixVersions = << >> THEN NoHit
    ELSE IF status_norm(task) = COMPLETE THEN NoHit
    ELSE IF \E i \in DOMAIN task.fixVersions :
               /\ ReleaseDay(task.fixVersions[i]).ok
               /\ Today >= ReleaseDay(task.fixVersions[i]).day
         THEN RuleHit(0)
    ELSE NoHit

evaluate_post_version_alert(task) ==
    IF ~InScope(task, POST_VERSION_ALERT) THEN NoHit
    ELSE IF task.fixVersions = << >> THEN NoHit
    ELSE IF status_norm(task) = COMPLETE THEN NoHit
    ELSE PostVersionFrom(task.fixVersions)

\* the window open at its far end
InWindow_open(time_diff, window) == 0 <= time_diff /\ time_diff < window

\* time_diff >= timedelta(0) and time_diff <= timedelta(minutes=window)
InWindow(time_diff, window) == 0 <= time_diff /\ time_diff <= window

evaluate_assignee_changed(task, assignee_change_wait) ==
    IF ~InScope(task, ASSIGNEE_CHANGED) THEN NoHit
    ELSE IF task.assignee_email = "" THEN NoHit
    ELSE IF ~StampTruthy(task.last_assignee_changed_at) THEN NoHit
    ELSE LET changed_at == FirstParse(task.last_assignee_changed_at,
                                      << "frac_tz", "sec_tz", "sec_naive" >>)
         IN IF ~changed_at.ok THEN NoHit
            ELSE IF ~changed_at.dt.aware THEN Raises
            ELSE IF InWindow(Elapsed(changed_at.dt), assignee_change_wait)
                 THEN RuleHit(0)
            ELSE NoHit

\* the due date of the task as a day, if one can be read from the field
DueDay(due_raw) ==
    IF due_raw.type \in {"datetime", "date"}
    THEN [ok |-> TRUE, day |-> WallDate(due_raw.dt)]
    ELSE IF due_raw.type = "str"
         THEN IF due_raw.form \in {"date", "sec_tz", "frac_tz", "sec_naive"}
              THEN [ok |-> TRUE, day |-> WallDate(due_raw.dt)]
              ELSE IF parse_iso(due_raw).ok
                   THEN [ok |-> TRUE, day |-> WallDate(parse_iso(due_raw).dt)]
                   ELSE NoDay
    ELSE NoDay

evaluate_due_date_overdue(task) ==
    IF ~InScope(task, DUE_DATE_OVERDUE) THEN NoHit
    ELSE IF task.duedate.type = "none" THEN NoHit
    ELSE IF ~DueDay(task.duedate).ok THEN NoHit
    ELSE IF Today > DueDay(task.duedate).day
         THEN RuleHit(Today - DueDay(task.duedate).day)
    ELSE NoHit

\* the creation time of the task, if one can be read from the field
CreatedAt(v) ==
    IF v.type = "datetime" THEN [ok |-> TRUE, dt |-> v.dt]
    ELSE IF v.type = "str"
         THEN IF FirstParse(v, << "frac_tz", "sec_tz", "sec_naive" >>).ok
              THEN FirstParse(v, << "frac_tz", "sec_tz", "sec_naive" >>)
              ELSE parse_iso(v)
    ELSE Failed

evaluate_created_recently(task, created_wait) ==
    IF ~InScope(task, RECENTLY_CREATED) THEN NoHit
    ELSE IF ~StampTruthy(task.created) THEN NoHit
    ELSE IF ~CreatedAt(task.created).ok THEN NoHit
    ELSE IF ~CreatedAt(task.created).dt.aware THEN Raises
    ELSE IF InWindow(Elapsed(CreatedAt(task.created).dt), created_wait) THEN RuleHit(0)
    ELSE NoHit

(***************************************************************************)
(* The evaluators applied to one task.  The task and the configured        *)
(* windows are drawn from families of inputs, one family per group of      *)
(* fields the evaluators read; the clock is late on local day 1 or at the  *)
(* start of local day 2.  Windows are counted in hours, the unit of the    *)
(* clock.  A status is None or a text.                                     *)
(***************************************************************************)
\* the largest window, in hours
MaxWait == 2
\* the largest pre_version_days
MaxPreDays == 3
\* the last local day a date of a task may name
MaxDay == 4
\* how far around StartTime the timestamps of a task lie, in hours
MaxSkew == 3

RuleClocks == { StartTime, StartTime + 2 }

Conf(wait, pre_version_days) ==
    [ci_testing_wait |-> wait, pre_version_days |-> pre_version_days,
     assignee_change_wait |-> wait, created_wait |-> wait]

DefaultTask ==
    [project |-> PyStr(PPFP), status |-> PyStr(OPEN), has_worklog |-> FALSE,
     last_status_changed_at |-> StampNone, description |-> PyStr(<< "a" >>),
     fixVersions |-> << >>, duedate |-> StampNone, created |-> StampNone,
     assignee_email |-> T1, last_assignee_changed_at |-> StampNone]

Projects ==
    { PyNone, PyStr(PPFP), PyStr(TADS), PyStr(<< "I", "P", "T", "P", "E" >>),
      PyStr(iptpe_tads), PyStr(IPTPE_TADS),
      PyStr(<< " " >> \o iptpe_tads \o << " " >>) }

\* timestamps with UTC offset, without one, and values that are no timestamp
Stamps ==
    { StampText(form, Aware(i, off)) :
        form \in {"sec_tz", "frac_tz"},
        i \in (StartTime - MaxSkew)..(StartTime + MaxSkew),
        off \in {0, VN_OFFSET} }
       \cup { StampText("sec_naive", Naive(i + VN_OFFSET)) :
                 i \in (StartTime - MaxSkew)..(StartTime + MaxSkew) }
       \cup { StampNone, StampEmpty, StampBad, StampInt }
       \cup { StampDate(type, day) : type \in {"str", "date"}, day \in {1, 2} }
       \cup { StampObject(Aware(i, VN_OFFSET)) : i \in {StartTime - 1, StartTime} }
       \cup { StampObject(Naive(StartTime + VN_OFFSET)) }

LogtimeStatuses ==
    { PyNone, PyStr(READY_CI_TESTING), PyStr(CI_Testing), PyStr(ready_ci_testing_padded),
      PyStr(ALREADY_CI_TESTING_DONE), PyStr(OPEN) }
VersionStatuses ==
    { PyNone, PyStr(OPEN), PyStr(UAT), PyStr(uat_testing),
      PyStr(COMPLETE), PyStr(Complete_padded) }
Descriptions ==
    { PyNone, PyStr(<< >>), PyStr(<< " ", " " >>), PyStr(<< "\t", "\n" >>),
      PyStr(<< " ", "a", " " >>), PyStr(<< "a" >>), PyInt(0) }

FixVersionChoices ==
    { FixVersion("dated", day, StampNone) : day \in 0..MaxDay }
       \cup { FixVersion("plain", 0, StampDate("str", day)) : day \in {1, 3} }
       \cup { FixVersion("plain", 0, StampText("sec_naive", Naive(2 * DayHours + 9))),
              FixVersion("plain", 0, StampNone),
              FixVersion("plain", 0, StampBad),
              FixVersion("baddate", 0, StampDate("str", 0)),
              FixVersion("empty", 0, StampNone) }
FixVersionLists ==
    { << >> } \cup { << fv >> : fv \in FixVersionChoices }
       \cup { << fv, gv >> : fv \in FixVersionChoices, gv \in FixVersionChoices }

Input(task, conf) == [task |-> task, conf |-> conf]

LogtimeInputs ==
    { Input([DefaultTask EXCEPT !.project = project, !.status = status,
                                !.has_worklog = has_worklog,
                                !.last_status_changed_at = stamp],
            Conf(wait, 2)) :
        project \in {PyNone, PyStr(PPFP), PyStr(TADS), PyStr(iptpe_tads)},
        status \in LogtimeStatuses,
        has_worklog \in BOOLEAN, stamp \in Stamps, wait \in 1..MaxWait }
DescriptionInputs ==
    { Input([DefaultTask EXCEPT !.project = project, !.description = description],
            Conf(1, 2)) :
        project \in Projects, description \in Descriptions }
VersionInputs ==
    { Input([DefaultTask EXCEPT !.project = project, !.status = status,
                                !.fixVersions = fvs],
            Conf(1, days)) :
        project \in {PyNone, PyStr(PPFP), PyStr(TADS), PyStr(iptpe_tads),
                     PyStr(<< " " >> \o iptpe_tads \o << " " >>)},
        status \in VersionStatuses,
        fvs \in FixVersionLists, days \in 1..MaxPreDays }
AssigneeInputs ==
    { Input([DefaultTask EXCEPT !.assignee_email = email,
                                !.last_assignee_changed_at = stamp],
            Conf(wait, 2)) :
        email \in {T1, NoEmail}, stamp \in Stamps, wait \in 1..MaxWait }
DueInputs ==
    { Input([DefaultTask EXCEPT !.project = project, !.duedate = stamp], Conf(1, 2)) :
        project \in Projects, stamp \in Stamps }
CreatedInputs ==
    { Input([DefaultTask EXCEPT !.created = stamp], Conf(wait, 2)) :
        stamp \in Stamps, wait \in 1..MaxWait }

RuleInputs ==
    LogtimeInputs \cup DescriptionInputs \cup VersionInputs \cup AssigneeInputs
       \cup DueInputs \cup CreatedInputs

RulesInit ==
    /\ now \in RuleClocks
    /\ db = InitLogs
    /\ cycle = 0
    /\ pc = "idle"
    /\ task_parallel \in BOOLEAN
    /\ history_rows = << >>
    /\ history_loaded = FALSE
    /\ tasks = << >>
    /\ pending = {}
    /\ all_records = << >>
    /\ dispatched = << >>
    /\ skipped = {}
    /\ dropped = {}
    /\ count_attempt = 0
    /\ count_sent = 0
    /\ fetched = 0
    /\ save = NoSave
    /\ rule_in \in RuleInputs
    /\ rule_out = NoResults

\* the evaluator of a rule, as process_task calls it on a task
Outcome(code, task, conf) ==
    CASE code = MISSING_LOGTIME -> evaluate_missing_logtime(task, conf.ci_testing_wait)
      [] code = MISSING_DESCRIPTION -> evaluate_missing_description(task)
      [] code = PRE_VERSION_REMINDER ->
            evaluate_pre_version_reminder(task, conf.pre_version_days)
      [] code = POST_VERSION_ALERT -> evaluate_post_version_alert(task)
      [] code = ASSIGNEE_CHANGED ->
            evaluate_assignee_changed(task, conf.assignee_change_wait)
      [] code = DUE_DATE_OVERDUE -> evaluate_due_date_overdue(task)
      [] code = RECENTLY_CREATED -> evaluate_created_recently(task, conf.created_wait)

\* the seven evaluators run on the task
Evaluate ==
    /\ rule_out = NoResults
    /\ rule_out' = [code \in RuleCodes |-> Outcome(code, rule_in.task, rule_in.conf)]
    /\ UNCHANGED rule_in
    /\ UNCHANGED cycle_vars

RulesSpec == RulesInit /\ [][Evaluate]_vars

(***************************************************************************)
(* Functions called on their own: rule_in holds the arguments and rule_out *)
(* the result, while the cycle stays idle.                                 *)
(***************************************************************************)
IdleCycle ==
    /\ now = StartTime
    /\ db = InitLogs
    /\ cycle = 0
    /\ pc = "idle"
    /\ task_parallel = TRUE
    /\ history_rows = << >>
    /\ history_loaded = FALSE
    /\ tasks = << >>
    /\ pending = {}
    /\ all_records = << >>
    /\ dispatched = << >>
    /\ skipped = {}
    /\ dropped = {}
    /\ count_attempt = 0
    /\ count_sent = 0
    /\ fetched = 0
    /\ save = NoSave

\* the longest list of findings given to the composer
MaxFindings == 2

\* build_message on the first finding and build_combined_message on the list
MessageInit ==
    /\ IdleCycle
    /\ rule_in \in
          { [task |-> [key |-> "K1"], findings |-> fs] :
              fs \in UNION { [1..n -> { Finding(code, data, T1) :
                                           code \in RuleCodes, data \in Payloads }] :
                             n \in 1..MaxFindings } }
    /\ rule_out = NoResults

Compose ==
    /\ rule_out = NoResults
    /\ rule_out' =
          [single |-> build_message(rule_in.task, rule_in.findings[1].code,
                                    rule_in.findings[1].data),
           combined |-> build_combined_message(rule_in.task, rule_in.findings)]
    /\ UNCHANGED rule_in
    /\ UNCHANGED cycle_vars

MessageSpec == MessageInit /\ [][Compose]_vars

(***************************************************************************)
(* send_message_fpt (services/chat_api.py) called on its own.  Every call  *)
(* of requests.post is given its answer by the environment: HTTP 200,      *)
(* another status, or a RequestException after at most `timeout` seconds.  *)
(***************************************************************************)
\* the largest max_retries tried (the default of the parameter is 3)
MaxRetries == 3
Answers == { "200", "500", "RequestException" }

\* s.strip("/")
RECURSIVE strip_slash(_)
strip_slash(s) ==
    IF s # << >> /\ Head(s) = "/" THEN strip_slash(Tail(s))
    ELSE IF s # << >> /\ s[Len(s)] = "/" THEN strip_slash(SubSeq(s, 1, Len(s) - 1))
    ELSE s

\* (str(bot_id) if bot_id is not None else "").strip().strip("/")
bot_id_sanitized(bot_id) ==
    strip_slash(str_strip(IF bot_id.type # "none" THEN str(bot_id) ELSE << >>))

Call(via, answer) == [via |-> via, answer |-> answer]

\* the loop that goes on posting after a 200
RECURSIVE retry_loop_past_200(_, _, _, _)
retry_loop_past_200(via, answers, left, last_error) ==
    IF left <= 0
    THEN [ok |-> FALSE, body |-> last_error, calls |-> << >>]
    ELSE LET rest == retry_loop_past_200(via, Tail(answers), left - 1, Head(answers))
         IN IF Head(answers) = "200"
            THEN [ok |-> TRUE, body |-> "response",
                  calls |-> << Call(via, "200") >> \o rest.calls]
            ELSE [rest EXCEPT !.calls = << Call(via, Head(answers)) >> \o @]

\* one of the three retry loops: `for attempt in range(1, max_retries + 1)`
\* posts via one channel, returns at the first 200 and keeps the last error
RECURSIVE retry_loop(_, _, _, _)
retry_loop(via, answers, left, last_error) ==
    IF left <= 0
    THEN [ok |-> FALSE, body |-> last_error, calls |-> << >>]
    ELSE IF Head(answers) = "200"
    THEN [ok |-> TRUE, body |-> "response", calls |-> << Call(via, "200") >>]
    ELSE LET rest == retry_loop(via, Tail(answers), left - 1, Head(answers))
         IN [rest EXCEPT !.calls = << Call(via, Head(answers)) >> \o @]

\* send_message_fpt; user_emails and group_id are empty for None, [] and "";
\* answers[i] is what the i-th call of requests.post gives
send_message_fpt(bot_id, user_emails, group_id, max_retries, answers) ==
    IF bot_id_sanitized(bot_id) = << >>
    THEN [ok |-> FALSE, body |-> "Missing FPT_CHAT_BOT_ID", calls |-> << >>]
    ELSE IF user_emails # << >> /\ group_id # ""
    THEN IF Head(answers) = "200"
         THEN [ok |-> TRUE, body |-> "response", calls |-> << Call("emails", "200") >>]
         ELSE LET rest == retry_loop("group", Tail(answers), max_retries, Head(answers))
              IN [rest EXCEPT !.calls = << Call("emails", Head(answers)) >> \o @]
    ELSE IF user_emails # << >>
    THEN retry_loop("emails", answers, max_retries, "{}")
    ELSE IF group_id # ""
    THEN retry_loop("group", answers, max_retries, "{}")
    ELSE [ok |-> FALSE, body |-> "No recipients", calls |-> << >>]

BotIds == { PyNone, PyStr(<< >>), PyStr(<< " ", "/", " " >>), PyStr(<< "b", "/" >>),
           PyInt(7) }

SendInit ==
    /\ IdleCycle
    /\ rule_in \in [bot_id : BotIds, user_emails : {<< >>, << T1 >>},
                    group_id : {"", "G1"}, max_retries : 0 .. MaxRetries,
                    answers : [1 .. MaxRetries + 1 -> Answers]]
    /\ rule_out = NoResults

Send ==
    /\ rule_out = NoResults
    /\ rule_out' = send_message_fpt(rule_in.bot_id, rule_in.user_emails, rule_in.group_id,
                                    rule_in.max_retries, rule_in.answers)
    /\ UNCHANGED rule_in
    /\ UNCHANGED cycle_vars

SendSpec == SendInit /\ [][Send]_vars

(***************************************************************************)
(* build_task_object (services/jira_utils.py) on a raw issue, as Jira's    *)
(* JSON gives it.  A JSON value is None, a text, a dict or a list; a dict  *)
(* holds the keys that are present.                                        *)
(***************************************************************************)
EmptyDict == [k \in {} |-> PyNone]
PyDict(d) == [type |-> "dict", d |-> d]
PyList(items) == [type |-> "list", items |-> items]
\* marks a key that the dict does not hold
NoKey == [type |-> "absent"]
\* the dict of the keys of rec that are present
DictOf(rec) == PyDict([k \in { k \in DOMAIN rec : rec[k].type # "absent" } |-> rec[k]])

\* bool(v)
Bool(v) == \/ Truthy(v)
           \/ v.type = "dict" /\ DOMAIN v.d # {}
           \/ v.type = "list" /\ v.items # << >>
\* v or default
Or(v, default) == IF Bool(v) THEN v ELSE default
\* obj.get(key, default)
get(obj, key, default) == IF key \in DOMAIN obj.d THEN obj.d[key] ELSE default
IsEmptyDict(v) == v.type = "dict" /\ DOMAIN v.d = {}

\* JiraClient._safe_get
RECURSIVE _safe_get(_, _, _)
_safe_get(obj, path, default) ==
    IF path = << >> THEN (IF IsEmptyDict(obj) THEN default ELSE obj)
    ELSE IF obj.type # "dict" THEN default
    ELSE _safe_get(get(obj, Head(path), PyDict(EmptyDict)), Tail(path), default)

\* s.startswith(prefix)
startswith(s, prefix) ==
    Len(s) >= Len(prefix) /\ SubSeq(s, 1, Len(prefix)) = prefix

FC == << "F", "C" >>
LCD == << "L", "C", "D" >>
Ecom_x == << "E", "c", "o", "m", " ", "-", " ", "x" >>
Ecom_prefix == << "E", "c", "o", "m", " ", "-", " " >>

AttributeError == [raised |-> "AttributeError"]

\* any(c.startswith("Ecom - ") for c in component_names): True at the first
\* match, an AttributeError at a name that is no text before any match
RECURSIVE any_startswith(_, _)
any_startswith(names, prefix) ==
    IF names = << >> THEN "False"
    ELSE IF Head(names).type # "str" THEN "AttributeError"
    ELSE IF startswith(Head(names).s, prefix) THEN "True"
    ELSE any_startswith(Tail(names), prefix)

\* JiraClient._compute_actual_project.  get_actual_project of
\* get_lc_tasks_with_worklog_final joins the names first, which raises a
\* TypeError caught here when a name is no text, and otherwise answers as the
\* fallback does for the projects of the model
_compute_actual_project(project_key, component_names) ==
    IF project_key = PPFP THEN << "P", "a", "y" >>
    ELSE IF project_key = FC
    THEN IF \E i \in DOMAIN component_names : component_names[i] = PyStr(LCD)
         THEN << "R", "S", "A" >>
         ELSE LET ecom == any_startswith(component_names, Ecom_prefix)
              IN IF ecom = "AttributeError" THEN AttributeError
                 ELSE IF ecom = "True" THEN << "W", "e", "b" >>
                 ELSE project_key
    ELSE project_key

\* the email of fields.get(who) or {}
email_of(fields, who) ==
    Or(get(Or(get(fields, who, PyNone), PyDict(EmptyDict)), "emailAddress", PyNone),
       PyStr(<< >>))

\* fixVersion_dates: the versions that are dicts with a name and a releaseDate
fv_dates(fix_versions) ==
    LET dated == SelectSeq(fix_versions,
                           LAMBDA fv : /\ fv.type = "dict"
                                       /\ Bool(get(fv, "name", PyNone))
                                       /\ Bool(get(fv, "releaseDate", PyNone)))
    IN [i \in DOMAIN dated |-> [name |-> get(dated[i], "name", PyNone),
                                 releaseDate |-> get(dated[i], "releaseDate", PyNone)]]

\* build_task_object: the fields of the task that the rules read
build_task_record(issue) ==
    LET fields == get(issue, "fields", PyDict(EmptyDict))
        project_key == _safe_get(fields, << "project", "key" >>, PyStr(<< >>))
        components_raw == Or(get(fields, "components", PyList(<< >>)), PyList(<< >>)).items
        dicts == SelectSeq(components_raw, LAMBDA c : c.type = "dict")
        component_names == [i \in DOMAIN dicts |-> get(dicts[i], "name", PyStr(<< >>))]
        fix_versions == Or(get(fields, "fixVersions", PyNone), PyList(<< >>)).items
    IN IF project_key.type # "str" THEN AttributeError
       ELSE LET actual == _compute_actual_project(str_upper(project_key.s), component_names)
            IN IF actual = AttributeError THEN AttributeError
               ELSE [raised |-> "no",
                     project |-> PyStr(str_upper(project_key.s)),
                     components |-> component_names,
                     actual_project |-> actual,
                     assignee_email |-> email_of(fields, "assignee"),
                     reporter_email |-> email_of(fields, "reporter"),
                     description |-> get(fields, "description", PyNone),
                     fixVersions |-> fix_versions,
                     fixVersion_dates |-> fv_dates(fix_versions)]

RawProjects ==
    { NoKey, PyNone, PyDict(EmptyDict), DictOf([key |-> PyNone]),
      DictOf([key |-> PyStr(<< "p", "p", "f", "p" >>)]), DictOf([key |-> PyStr(FC)]) }
RawPersons ==
    { NoKey, PyNone, PyDict(EmptyDict), DictOf([emailAddress |-> PyNone]),
      DictOf([emailAddress |-> PyStr(<< "a", "@", "b" >>)]) }
RawComponents ==
    { NoKey, PyNone, PyList(<< >>), PyList(<< PyDict(EmptyDict) >>),
      PyList(<< DictOf([name |-> PyNone]) >>),
      PyList(<< DictOf([name |-> PyStr(Ecom_x)]), DictOf([name |-> PyNone]) >>),
      PyList(<< PyNone, DictOf([name |-> PyStr(LCD)]) >>) }
RawFixVersions ==
    { NoKey, PyNone, PyList(<< >>),
      PyList(<< DictOf([name |-> PyNone, releaseDate |-> PyStr(<< "d" >>)]) >>),
      PyList(<< PyNone, DictOf([name |-> PyStr(<< "v" >>), releaseDate |-> PyStr(<< "d" >>)]) >>) }
RawDescriptions == { NoKey, PyNone, PyStr(<< "t" >>) }

RawIssues ==
    { DictOf([key |-> PyStr(<< "K" >>),
              fields |-> DictOf([project |-> p, assignee |-> a, reporter |-> r,
                                 components |-> c, fixVersions |-> f, description |-> d])]) :
        p \in RawProjects, a \in RawPersons, r \in RawPersons, c \in RawComponents,
        f \in RawFixVersions, d \in RawDescriptions }

NormalizeInit ==
    /\ IdleCycle
    /\ rule_in \in { [issue |-> issue] : issue \in RawIssues }
    /\ rule_out = NoResults

Normalize ==
    /\ rule_out = NoResults
    /\ rule_out' = build_task_record(rule_in.issue)
    /\ UNCHANGED rule_in
    /\ UNCHANGED cycle_vars

NormalizeSpec == NormalizeInit /\ [][Normalize]_vars

(***************************************************************************)
(* Properties.                                                             *)
(***************************************************************************)
Range(seq) == { seq[i] : i \in DOMAIN seq }
TaskKeys == { issue.key : issue \in IssueCatalog }
Addresses == { T1, T2, Guest, Padded }

\* rows of the table written by a cycle of this run (after the initial rows)
CycleLogs == { i \in DOMAIN db : i > Len(InitLogs) }
\* the hour at which a cycle wrote row i
WrittenAt(i) == db[i].created_at.wall - VN_OFFSET

\* the triple (task_key, rule_type, to) of row i is covered by this cycle's
\* dispatches or collected records
Redone(i) ==
    \/ \E m \in Range(dispatched) :
          /\ m.task_key = db[i].task_key
          /\ m.to = db[i].email
          /\ db[i].rule_type \in Range(m.rules)
    \/ \E r \in Range(all_records) :
          /\ r.task_key = db[i].task_key
          /\ r.to = db[i].email
          /\ r.rule_type = db[i].rule_type

MatchingRows(e) ==
    { j \in DOMAIN history_rows :
        /\ history_rows[j].task_key = e.task_key
        /\ history_rows[j].to = e.to
        /\ history_rows[j].rule_type \in Range(e.rules) }

\* C2: a failed dispatch is recorded with status failed, and a group whose
\* matching history rows all have status failed is not skipped by the
\* hour-based check.
C2_FailedDoesNotBlock ==
    /\ \A m \in Range(dispatched) : ~m.ok =>
          \E r \in Range(all_records) :
             r.task_key = m.task_key /\ r.to = m.to /\ r.status = "failed"
    /\ \A e \in skipped :
          (e.reason = "already_sent" /\ MatchingRows(e) # {}) =>
              \E j \in MatchingRows(e) : history_rows[j].status # "failed"

(***************************************************************************)
(* Groups of the tasks processed so far in the running cycle.              *)
(***************************************************************************)
Processed == IF pc = "process" THEN DOMAIN tasks \ pending ELSE {}
GroupAt(i, to) == GroupOf(Normalized(tasks[i], Findings(tasks[i])), to)
DispatchesFor(i, to) ==
    { k \in DOMAIN dispatched : dispatched[k].idx = i /\ dispatched[k].to = to }
SkipsFor(i, to) == { e \in skipped : e.idx = i /\ e.to = to }

\* some finding of the group matches the hour-based or the same-day check
Matches(i, to, db_ok) ==
    \E k \in DOMAIN GroupAt(i, to) :
       \/ _already_sent(history_rows, tasks[i].key, GroupAt(i, to)[k].code, to,
                        resend_after_hours)
       \/ _already_logged_today_by_level(db, db_ok, tasks[i].key,
                                         GroupAt(i, to)[k].code, "INFO")

\* the records one dispatched message gives rise to, message after message
RECURSIVE RecordsFor(_)
RecordsFor(ds) ==
    IF ds = << >> THEN << >>
    ELSE [j \in DOMAIN Head(ds).rules |->
            Record(Head(ds).task_key, Head(ds).rules[j], Head(ds).to, Head(ds).ok)]
         \o RecordsFor(Tail(ds))

\* all-or-nothing for one group: skipped whole when a finding matches,
\* dispatched once when none does
AllOrNothing(i, to) ==
    \/ /\ DispatchesFor(i, to) = {}
       /\ Cardinality(SkipsFor(i, to)) = 1
       /\ \A e \in SkipsFor(i, to) : Matches(i, to, e.db_ok)
    \/ /\ SkipsFor(i, to) = {}
       /\ Cardinality(DispatchesFor(i, to)) = 1
       /\ \A k \in DispatchesFor(i, to) :
             /\ ~Matches(i, to, dispatched[k].db_ok)
             /\ dispatched[k].rules = Codes(GroupAt(i, to))

\* C3 (as stated): every (task, recipient) group is skipped whole, with no
\* record collected, if one of its findings matches the hour-based or the
\* same-day check, and is dispatched exactly once if none matches.
C3_AllOrNothingEveryGroup ==
    /\ all_records = RecordsFor(dispatched)
    /\ \A i \in Processed : \A to \in Recipients(tasks[i]) : AllOrNothing(i, to)

\* C3 (amended): the same for every group whose recipient passes the
\* test-recipient gate, which is the set of groups the dedup filter sees.
C3_AllOrNothingGatedGroups ==
    /\ all_records = RecordsFor(dispatched)
    /\ \A i \in Processed : \A to \in Recipients(tasks[i]) :
          is_test_email(to) => AllOrNothing(i, to)

\* a group of two findings was skipped whole although only its second
\* finding had been sent before
C3_Witness ==
    \E i \in Processed : \E to \in Recipients(tasks[i]) :
       /\ is_test_email(to)
       /\ Len(GroupAt(i, to)) = 2
       /\ DispatchesFor(i, to) = {}
       /\ ~_already_sent(history_rows, tasks[i].key, GroupAt(i, to)[1].code, to,
                         resend_after_hours)
       /\ ~_already_logged_today_by_level(db, TRUE, tasks[i].key,
                                          GroupAt(i, to)[1].code, "INFO")
       /\ \E e \in SkipsFor(i, to) : e.rule = GroupAt(i, to)[2].code

\* C4: within one cycle no (task_key, rule_type, recipient) triple is
\* dispatched more than once, the history having been loaded and the table
\* being readable at each dedup check.
C4_NoDoubleDispatch ==
    history_loaded =>
       \A a, b \in DOMAIN dispatched :
          ( /\ a # b
            /\ dispatched[a].db_ok /\ dispatched[b].db_ok
            /\ dispatched[a].task_key = dispatched[b].task_key
            /\ dispatched[a].to = dispatched[b].to )
          => Range(dispatched[a].rules) \cap Range(dispatched[b].rules) = {}

\* C5: a group made of a missing_logtime and a pre_version_reminder finding
\* that passes both filters gets one dispatch whose text has a bullet for
\* each finding, and two records, one per rule, with the recipient and the
\* outcome of that dispatch.
C5_CombinedMessage ==
    /\ all_records = RecordsFor(dispatched)
    /\ \A i \in Processed : \A to \in Recipients(tasks[i]) :
          ( /\ Codes(GroupAt(i, to)) = << MISSING_LOGTIME, PRE_VERSION_REMINDER >>
            /\ is_test_email(to)
            /\ SkipsFor(i, to) = {} )
          => /\ Cardinality(DispatchesFor(i, to)) = 1
             /\ \A k \in DispatchesFor(i, to) :
                   LET m == dispatched[k]
                       recs == RecordsFor(<< m >>)
                   IN /\ m.text.form = "combined"
                      /\ {MISSING_LOGTIME, PRE_VERSION_REMINDER} \subseteq Range(m.text.bullets)
                      /\ Len(recs) = 2
                      /\ { recs[j].rule_type : j \in 1..2 }
                            = {MISSING_LOGTIME, PRE_VERSION_REMINDER}
                      /\ \A j \in 1..2 : recs[j].to = to
                      /\ recs[1].status = recs[2].status

C5_Witness ==
    \E i \in Processed : \E to \in Recipients(tasks[i]) :
       /\ Codes(GroupAt(i, to)) = << MISSING_LOGTIME, PRE_VERSION_REMINDER >>
       /\ \E k \in DispatchesFor(i, to) : ~dispatched[k].ok
       /\ Len(all_records) = 2

\* rows of the table that carry the triple (k, r, to)
RowsWith(k, r, to) ==
    { j \in DOMAIN db : /\ db[j].source = "reminder_bot"
                        /\ db[j].task_key = k
                        /\ db[j].rule_type = r
                        /\ db[j].email = to }

\* the row no longer lies inside the dedup window
Expired(j) ==
    IF j \in CycleLogs THEN now - WrittenAt(j) >= resend_after_hours
    ELSE /\ CanParse(HistoryRow(db[j]).sent_at)
         /\ now - Instant(fromisoformat(HistoryRow(db[j]).sent_at)) >= resend_after_hours

\* C6: a record written by a cycle at hour t is found by _already_sent under
\* its own triple while now - t < resend_after_hours; once every row of a
\* triple is at or past the window the query is false, and rows of other
\* triples never make it true.
C6_RoundTrip ==
    LET rows == _load_history(db, TRUE)
    IN /\ \A i \in CycleLogs :
             (now - WrittenAt(i) < resend_after_hours)
             => _already_sent(rows, db[i].task_key, db[i].rule_type,
                              db[i].email, resend_after_hours)
       /\ \A k \in TaskKeys, r \in RuleCodes, to \in Addresses :
             (\A j \in RowsWith(k, r, to) : Expired(j))
             => ~_already_sent(rows, k, r, to, resend_after_hours)

\* one record is still inside the window and found, another has just
\* reached the end of the window and is not
C6_Witness ==
    \E i, j \in CycleLogs :
       /\ now - WrittenAt(i) < resend_after_hours
       /\ now - WrittenAt(j) = resend_after_hours
       /\ _already_sent(_load_history(db, TRUE), db[i].task_key, db[i].rule_type,
                        db[i].email, resend_after_hours)
       /\ ~_already_sent(_load_history(db, TRUE), db[j].task_key, db[j].rule_type,
                         db[j].email, resend_after_hours)

\* C7: a loaded row whose sent_at cannot be parsed makes the hour-based
\* check true for its triple, so that no group with that triple is dispatched.
C7_UnparseableBlocks ==
    pc = "process" =>
       \A j \in DOMAIN history_rows :
          ~CanParse(history_rows[j].sent_at)
          => /\ _already_sent(history_rows, history_rows[j].task_key,
                              history_rows[j].rule_type, history_rows[j].to,
                              resend_after_hours)
             /\ \A m \in Range(dispatched) :
                   ~( /\ m.task_key = history_rows[j].task_key
                      /\ m.to = history_rows[j].to
                      /\ history_rows[j].rule_type \in Range(m.rules) )

InGroup(i, to, code) ==
    \/ \E k \in DispatchesFor(i, to) : code \in Range(dispatched[k].rules)
    \/ \E e \in SkipsFor(i, to) : code \in Range(e.rules)

\* C9: a finding whose rule recipient is empty goes to the reporter's group,
\* a finding with no recipient at all is dropped, and every dispatched
\* message and every collected record has a recipient.
C9_RecipientResolution ==
    /\ \A m \in Range(dispatched) : m.to # ""
    /\ \A r \in Range(all_records) : r.to # ""
    /\ \A i \in Processed :
          \A k \in DOMAIN Findings(tasks[i]) :
             LET f == Findings(tasks[i])[k]
                 reporter == tasks[i].reporter_email
             IN IF f.recipient # "" THEN InGroup(i, f.recipient, f.code)
                ELSE IF reporter # "" THEN InGroup(i, reporter, f.code)
                ELSE /\ [task_key |-> tasks[i].key, rule_type |-> f.code] \in dropped
                     /\ \A to \in Addresses \cup {""} : ~InGroup(i, to, f.code)

\* one list held a task without assignee, whose finding for the assignee was
\* dispatched to the reporter, and a task without any address, whose
\* findings were dropped
C9_Witness ==
    /\ dropped # {}
    /\ \E i \in Processed :
          /\ tasks[i].assignee_email = ""
          /\ \E k \in DispatchesFor(i, tasks[i].reporter_email) :
                POST_VERSION_ALERT \in Range(dispatched[k].rules)

\* C10: a failing worklog or changelog call is absorbed by the task it
\* belongs to, and the cycle runs to its end.
C10_FetchFailureContained == pc # "aborted"

\* C11: a dispatch that returns not-ok leaves one failed record for every
\* finding of its group and never ends the cycle: the save stays possible
\* once no task is pending, and at the report every group of every task
\* has been dispatched or skipped and the counts are those of the records.
C11_DispatchFailureContained ==
    /\ dispatched # << >> => pc \in {"process", "done"}
    /\ all_records = RecordsFor(dispatched)
    /\ \A m \in Range(dispatched) :
          ~m.ok => \A code \in Range(m.rules) :
                      \E j \in DOMAIN all_records :
                         /\ all_records[j].task_key = m.task_key
                         /\ all_records[j].to = m.to
                         /\ all_records[j].rule_type = code
                         /\ all_records[j].status = "failed"
    /\ count_attempt = Len(all_records)
    /\ count_sent = Cardinality({ j \in DOMAIN all_records :
                                     all_records[j].status = "sent" })
    /\ (pc = "process" /\ pending = {}) => ENABLED Persist
    /\ pc = "done" =>
          /\ pending = {}
          /\ ENABLED Report
          /\ \A i \in DOMAIN tasks : \A to \in Recipients(tasks[i]) :
                DispatchesFor(i, to) # {} \/ SkipsFor(i, to) # {}

\* the cycle reached its report after the dispatch for the first task
\* failed and the dispatch for the second task went through
C11_Witness ==
    /\ pc = "done"
    /\ Len(dispatched) = 2
    /\ ~dispatched[1].ok /\ dispatched[2].ok
    /\ dispatched[1].idx # dispatched[2].idx
    /\ count_attempt = Len(all_records) /\ count_sent >= 1

\* rows the save put at the end of the table
SavedRows ==
    LET logs == LogsOf(all_records, [i \in DOMAIN all_records |-> i \notin save.failed], 1)
    IN IF Len(db) < Len(logs) THEN << >>
       ELSE SubSeq(db, Len(db) - Len(logs) + 1, Len(db))

\* C12: once the batch insert has failed, every collected record is
\* inserted on its own exactly once, in list order; the records whose own
\* insert failed are missing from the table and all the others are in it;
\* the cycle goes on to its report.
C12_PersistenceFallback ==
    pc = "done" =>
       /\ (save.batch = "none") <=> (all_records = << >>)
       /\ save.batch = "ok" => (save.attempts = << >> /\ save.failed = {})
       /\ save.batch = "failed" =>
             /\ save.attempts = [i \in 1..Len(all_records) |-> i]
             /\ save.failed \subseteq DOMAIN all_records
       /\ SavedRows = LogsOf(all_records,
                             [i \in DOMAIN all_records |-> i \notin save.failed], 1)
       /\ Len(SavedRows) = Len(all_records) - Cardinality(save.failed)

\* the batch failed, the insert of the first record failed too, and the
\* second record was still inserted
C12_Witness ==
    /\ pc = "done"
    /\ save.batch = "failed"
    /\ Len(all_records) = 2
    /\ save.failed = {1}
    /\ save.attempts = << 1, 2 >>
    /\ db[Len(db)] = LogOf(all_records[2])

(***************************************************************************)
(* Properties of the rule evaluators.                                      *)
(***************************************************************************)
Evaluated == rule_out # NoResults
Result(code) == rule_out[code]

\* C13: no evaluator raises on a data-quality problem of the task: a
\* missing field, a timestamp that is malformed, of an unexpected type, or
\* well-formed but without a UTC offset
C13_NoEvaluatorRaises ==
    Evaluated => \A code \in RuleCodes : Result(code).kind # "raise"

\* the instant a parsed timestamp names; one without UTC offset is read in
\* the local zone of the clock
InstantOf(dt) == IF dt.aware THEN Instant(dt) ELSE dt.wall - VN_OFFSET
\* now - timestamp
Age(dt) == now - InstantOf(dt)
Absent(v) == v.type = "none" \/ (v.type = "str" /\ v.form = "empty")
\* status contains "READY CI TESTING", whatever the case of its letters
IsReadyCiTesting(task) ==
    /\ task.status.type = "str"
    /\ str_contains(READY_CI_TESTING, str_upper(task.status.s))
\* last_status_changed_at is a text in one of the two formats of the rule
LogtimeParseable(v) == v.type = "str" /\ v.form \in {"sec_tz", "sec_naive"}

\* C14: for every task in scope of the rule whose status contains
\* "READY CI TESTING" in any letter case, that has no worklog and whose
\* last_status_changed_at is absent, unparseable or at least ci_testing_wait
\* old, evaluate_missing_logtime returns a hit; with a worklog it never hits
C14_MissingLogtime ==
    Evaluated =>
       LET task == rule_in.task
           stamp == task.last_status_changed_at
           stale == \/ Absent(stamp)
                    \/ ~LogtimeParseable(stamp)
                    \/ Age(stamp.dt) >= rule_in.conf.ci_testing_wait
       IN /\ ( /\ InScope(task, MISSING_LOGTIME)
               /\ IsReadyCiTesting(task)
               /\ ~task.has_worklog
               /\ stale ) => Result(MISSING_LOGTIME).kind = "hit"
          /\ task.has_worklog => Result(MISSING_LOGTIME).kind = "none"

\* the same for timestamps that carry a UTC offset
C14_WithOffset ==
    Evaluated /\ rule_in.task.last_status_changed_at.form # "sec_naive"
       => C14_MissingLogtime

\* C15: for a task whose status is written "CI Testing", without a worklog
\* and whose status changed longer ago than the wait window,
\* evaluate_missing_logtime returns MISSING_LOGTIME
C15_CiTestingStatusHits ==
    Evaluated =>
       LET task == rule_in.task
           stamp == task.last_status_changed_at
       IN ( /\ InScope(task, MISSING_LOGTIME)
            /\ task.status = PyStr(CI_Testing)
            /\ ~task.has_worklog
            /\ stamp.type = "str" /\ stamp.form = "sec_tz"
            /\ Age(stamp.dt) > rule_in.conf.ci_testing_wait )
          => Result(MISSING_LOGTIME).kind = "hit"

\* the task has one fix-version, whose name embeds the date of the given day
OneDatedFixVersion(task, day) ==
    task.fixVersions = << FixVersion("dated", day, StampNone) >>
\* the status is one of the exempt set, whatever the case of its letters
IsDeployUat(task) ==
    task.status.type = "str" /\ str_upper(task.status.s) \in deploy_uat_statuses

\* C16: for a task with one fix-version whose name embeds the date 2 days
\* after today, evaluate_pre_version_reminder returns a hit with days = 2
\* when the status is OPEN and no hit when the status is of the exempt set,
\* for every pre_version_days
C16_PreVersionReminder ==
    Evaluated =>
       LET task == rule_in.task
       IN OneDatedFixVersion(task, Today + 2) =>
             /\ ( InScope(task, PRE_VERSION_REMINDER) /\ task.status = PyStr(OPEN) )
                   => Result(PRE_VERSION_REMINDER) = RuleHit(2)
             /\ IsDeployUat(task) => Result(PRE_VERSION_REMINDER).kind = "none"

\* the same when pre_version_days is below 2
C16_ShortWindow ==
    Evaluated /\ rule_in.conf.pre_version_days < 2 => C16_PreVersionReminder

\* some fix-version of the task has a release date strictly before today
ReleasedBefore(task, day) ==
    \E i \in DOMAIN task.fixVersions :
       /\ ReleaseDay(task.fixVersions[i]).ok
       /\ ReleaseDay(task.fixVersions[i]).day < day
\* the status is COMPLETE, whatever the case of its letters
IsComplete(task) ==
    task.status.type = "str" /\ str_upper(task.status.s) = COMPLETE

\* C17, as stated: for every task with a fix-version released strictly
\* before today's local date and a status that is not COMPLETE,
\* evaluate_post_version_alert returns a hit; with status COMPLETE in any
\* letter case it returns no hit; a release today or later causes no hit
C17_PostVersionAlertAnyProject ==
    Evaluated =>
       LET task == rule_in.task
       IN /\ ( ReleasedBefore(task, Today) /\ status_norm(task) # COMPLETE )
                => Result(POST_VERSION_ALERT).kind = "hit"
          /\ IsComplete(task) => Result(POST_VERSION_ALERT).kind = "none"
          /\ ~ReleasedBefore(task, Today) => Result(POST_VERSION_ALERT).kind = "none"

\* C17, amended: the hit is returned for every such task whose project passes
\* the scoping of the rule; with status COMPLETE in any letter case there is
\* no hit; a release today or later causes no hit
C17_PostVersionAlert ==
    Evaluated =>
       LET task == rule_in.task
       IN /\ ( /\ InScope(task, POST_VERSION_ALERT)
               /\ ReleasedBefore(task, Today)
               /\ status_norm(task) # COMPLETE )
                => Result(POST_VERSION_ALERT).kind = "hit"
          /\ IsComplete(task) => Result(POST_VERSION_ALERT).kind = "none"
          /\ ~ReleasedBefore(task, Today) => Result(POST_VERSION_ALERT).kind = "none"

\* a task in scope, not COMPLETE, released yesterday after a fix-version
\* released today, was evaluated and hit
C17_Witness ==
    /\ Evaluated
    /\ InScope(rule_in.task, POST_VERSION_ALERT)
    /\ rule_in.task.status = PyStr(OPEN)
    /\ rule_in.task.fixVersions
          = << FixVersion("dated", Today, StampNone),
               FixVersion("dated", Today - 1, StampNone) >>
    /\ Result(POST_VERSION_ALERT).kind = "hit"

\* last_assignee_changed_at is a text in one of the three formats of the rule
AssigneeParseable(v) == v.type = "str" /\ v.form \in {"frac_tz", "sec_tz", "sec_naive"}
\* created is a datetime object or a text that one of the four parses reads
CreatedParseable(v) ==
    \/ v.type = "datetime"
    \/ v.type = "str" /\ v.form \in {"frac_tz", "sec_tz", "sec_naive", "date"}
Within(dt, window) == 0 <= Age(dt) /\ Age(dt) <= window

\* C18: evaluate_assignee_changed, given an assignee_email and a parseable
\* last_assignee_changed_at, and evaluate_created_recently, given a parseable
\* creation timestamp, hit iff 0 <= now - timestamp <= window
C18_ClosedWindow ==
    Evaluated =>
       LET task == rule_in.task
           conf == rule_in.conf
       IN /\ ( task.assignee_email # NoEmail
                  /\ AssigneeParseable(task.last_assignee_changed_at) )
                => ( Result(ASSIGNEE_CHANGED).kind = "hit"
                        <=> Within(task.last_assignee_changed_at.dt,
                                   conf.assignee_change_wait) )
          /\ CreatedParseable(task.created)
                => ( Result(RECENTLY_CREATED).kind = "hit"
                        <=> Within(task.created.dt, conf.created_wait) )

\* the same for timestamps that carry a UTC offset
C18_WithOffset ==
    Evaluated =>
       LET task == rule_in.task
           conf == rule_in.conf
       IN /\ ( /\ task.assignee_email # NoEmail
               /\ AssigneeParseable(task.last_assignee_changed_at)
               /\ task.last_assignee_changed_at.dt.aware )
                => ( Result(ASSIGNEE_CHANGED).kind = "hit"
                        <=> Within(task.last_assignee_changed_at.dt,
                                   conf.assignee_change_wait) )
          /\ ( CreatedParseable(task.created) /\ task.created.dt.aware )
                => ( Result(RECENTLY_CREATED).kind = "hit"
                        <=> Within(task.created.dt, conf.created_wait) )

\* duedate is a datetime, a date, or a text that starts with a date
DueParseable(v) ==
    \/ v.type \in {"datetime", "date"}
    \/ v.type = "str" /\ v.form \in {"date", "sec_tz", "frac_tz", "sec_naive"}
DueDate(v) == v.dt.wall \div DayHours

\* C19: for every task with a parseable due date, evaluate_due_date_overdue
\* hits iff today's local date is strictly after the due date, and on a hit
\* days_overdue is today minus the due date, which is at least 1
C19_DueDateOverdue ==
    Evaluated =>
       LET due == rule_in.task.duedate
           hit == Result(DUE_DATE_OVERDUE)
       IN DueParseable(due) =>
             /\ hit.kind = "hit" <=> Today > DueDate(due)
             /\ hit.kind = "hit" => hit.n = Today - DueDate(due) /\ hit.n >= 1

\* the same for the tasks that is_project_allowed lets through
C19_AllowedProject ==
    Evaluated /\ is_project_allowed(rule_in.task.project, DUE_DATE_OVERDUE)
       => C19_DueDateOverdue

\* a task that is_project_allowed lets through, overdue by a day, was
\* evaluated and hit
C19_AllowedOverdue ==
    /\ Evaluated
    /\ DueParseable(rule_in.task.duedate)
    /\ Today = DueDate(rule_in.task.duedate) + 1
    /\ Result(DUE_DATE_OVERDUE) = RuleHit(1)

\* the description is a text of whitespace only, the empty text included
Blank(v) == v.type = "str" /\ \A i \in DOMAIN v.s : IsSpace(v.s[i])

\* C20: for every task whose project passes the scoping of the rule,
\* evaluate_missing_description hits iff the description is None or is empty
\* once whitespace is stripped; a description with other content never hits
C20_MissingDescription ==
    Evaluated =>
       LET task == rule_in.task
       IN InScope(task, MISSING_DESCRIPTION) =>
             ( Result(MISSING_DESCRIPTION).kind = "hit"
                  <=> ( task.description.type = "none" \/ Blank(task.description) ) )

\* a description of a tab and a line feed was evaluated and hit
C20_Witness ==
    /\ Evaluated
    /\ InScope(rule_in.task, MISSING_DESCRIPTION)
    /\ rule_in.task.description = PyStr(<< "\t", "\n" >>)
    /\ Result(MISSING_DESCRIPTION).kind = "hit"

\* the project, trimmed, is in the list, whatever the case of its letters
Listed(project, list) ==
    /\ project.type = "str"
    /\ \E p \in list : str_upper(p) = str_upper(str_strip(project.s))
\* the task with a project that is named in no list
OfPlainProject(task) == [task EXCEPT !.project = PyStr(PPFP)]

\* C21: every evaluator returns no hit, whatever the other fields hold, when
\* the project is in the exclusion list of the rule, or when the inclusion
\* list of the rule is not empty and the project is not in it; with an empty
\* inclusion list a project that is not excluded, an empty one included, is
\* treated as any other
C21_ProjectScoping ==
    Evaluated =>
       \A code \in RuleCodes :
          LET project == rule_in.task.project
              excluded == Listed(project, RULE_EXCLUDED_PROJECTS(code))
              included == Listed(project, RULE_INCLUDED_PROJECTS(code))
          IN /\ excluded => Result(code) = NoHit
             /\ ( RULE_INCLUDED_PROJECTS(code) # {} /\ ~included ) => Result(code) = NoHit
             /\ ( RULE_INCLUDED_PROJECTS(code) = {} /\ ~excluded )
                   => Result(code) = Outcome(code, OfPlainProject(rule_in.task), rule_in.conf)

\* a task of an excluded project, written in lower case, whose status-change
\* timestamp would make the evaluator raise, was evaluated without a hit
C21_Witness ==
    /\ Evaluated
    /\ rule_in.task.project = PyStr(iptpe_tads)
    /\ Outcome(MISSING_LOGTIME, OfPlainProject(rule_in.task), rule_in.conf) = Raises
    /\ Result(MISSING_LOGTIME) = NoHit

\* the name of the fix-version holds no 8-digit token that is a date
NoDateInName(fv) == fv.kind \in {"plain", "baddate"}
\* fixVersion_dates holds a date for the fix-version
HasMapDate(fv) == fv.fallback.type = "str" /\ fv.fallback.form \in {"date", "sec_naive"}
MapDay(fv) == fv.fallback.dt.wall \div DayHours
\* no release date can be read for the fix-version
Undated(fv) == fv.kind = "empty" \/ (NoDateInName(fv) /\ ~HasMapDate(fv))
\* some fix-version of the task takes the given day from fixVersion_dates
FallsBackTo(task, day) ==
    \E i \in DOMAIN task.fixVersions :
       /\ NoDateInName(task.fixVersions[i])
       /\ HasMapDate(task.fixVersions[i])
       /\ MapDay(task.fixVersions[i]) = day

\* C22: a fix-version whose name holds no date takes its release date from
\* fixVersion_dates: with that date 2 days ahead and pre_version_days = 3
\* evaluate_pre_version_reminder hits (with days = 2 when the fix-versions
\* before it have no date), with that date 1 day in the past
\* evaluate_post_version_alert hits unless the status is COMPLETE, and a task
\* whose fix-versions have neither gets no finding and no exception
C22_ReleaseDateFallback ==
    Evaluated =>
       LET task == rule_in.task
           fvs == task.fixVersions
       IN /\ ( /\ InScope(task, PRE_VERSION_REMINDER)
               /\ rule_in.conf.pre_version_days = 3
               /\ FallsBackTo(task, Today + 2) )
                => /\ Result(PRE_VERSION_REMINDER).kind = "hit"
                   /\ ( \E i \in DOMAIN fvs :
                           /\ NoDateInName(fvs[i]) /\ HasMapDate(fvs[i])
                           /\ MapDay(fvs[i]) = Today + 2
                           /\ \A j \in 1..(i - 1) : Undated(fvs[j]) )
                         => Result(PRE_VERSION_REMINDER) = RuleHit(2)
          /\ ( /\ InScope(task, POST_VERSION_ALERT)
               /\ status_norm(task) # COMPLETE
               /\ FallsBackTo(task, Today - 1) )
                => Result(POST_VERSION_ALERT).kind = "hit"
          /\ ( \A i \in DOMAIN fvs : Undated(fvs[i]) )
                => /\ Result(PRE_VERSION_REMINDER) = NoHit
                   /\ Result(POST_VERSION_ALERT) = NoHit

\* a task without project and status, as in the tests, with a fix-version
\* of yesterday in fixVersion_dates, then one without any date, then one
\* two days ahead in fixVersion_dates, was evaluated with
\* pre_version_days = 3 and hit both rules
C22_Witness ==
    /\ Evaluated
    /\ rule_in.task.project = PyNone
    /\ rule_in.task.status = PyNone
    /\ rule_in.conf.pre_version_days = 3
    /\ Len(rule_in.task.fixVersions) = 2
    /\ rule_in.task.fixVersions[1] = FixVersion("baddate", 0, StampDate("str", Today - 1))
    /\ rule_in.task.fixVersions[2] = FixVersion("plain", 0, StampDate("str", Today + 2))
    /\ Result(PRE_VERSION_REMINDER) = RuleHit(2)
    /\ Result(POST_VERSION_ALERT).kind = "hit"

(***************************************************************************)
(* Properties of the functions called on their own.                        *)
(***************************************************************************)
Returned == DOMAIN rule_out # RuleCodes

\* C23: build_message and build_combined_message return a text for every
\* rule code and every payload, a pre-version or post-version payload
\* without fv_name, days or release_date included
C23_ComposerNeverThrows ==
    Returned => rule_out.single.form # "KeyError" /\ rule_out.combined.form # "KeyError"

\* the same for payloads that are None, empty or complete
C23_CompletePayloads ==
    ( Returned /\ \A i \in DOMAIN rule_in.findings :
                     rule_in.findings[i].data \in {"None", "empty", "payload"} )
       => C23_ComposerNeverThrows


(***************************************************************************)
(* The test-recipient gate.                                                *)
(***************************************************************************)
\* the address, trimmed and in lower case, is one of the allow-list
OnAllowList(email) ==
    \E test_email \in TEST_EMAILS : email_lower(email) = email_lower(test_email)

\* C24: while TEST_EMAILS is non-empty no message is dispatched to, and no
\* history record collected for, a recipient whose trimmed, lower-cased
\* address is not in the list; with an empty list every non-empty address
\* passes the gate
C24_TestRecipientGate ==
    /\ TEST_EMAILS # {}
    /\ \A i \in DOMAIN dispatched : OnAllowList(dispatched[i].to)
    /\ \A i \in DOMAIN all_records : OnAllowList(all_records[i].to)
    /\ \A s \in skipped : s.reason = "test_email" => ~OnAllowList(s.to)
    /\ \A email \in Addresses \cup {NoEmail} :
          is_test_email_in(email, {}) <=> email # ""

\* a task of a guest and a task of a listed address in another spelling have
\* been processed: the first was skipped at the gate, the second dispatched
C24_Witness ==
    /\ \E s \in skipped : s.to = Guest /\ s.reason = "test_email"
    /\ \E i \in DOMAIN dispatched : dispatched[i].to = Padded
    /\ \E i \in DOMAIN all_records : all_records[i].to = Padded
    /\ \A i \in DOMAIN dispatched : dispatched[i].to # Guest

(***************************************************************************)
(* send_message_fpt.                                                       *)
(***************************************************************************)
Via(calls, via) == { i \in DOMAIN calls : calls[i].via = via }
HasBot == bot_id_sanitized(rule_in.bot_id) # << >>
HasEmails == rule_in.user_emails # << >>
HasGroup == rule_in.group_id # ""
\* the number of HTTP attempts the arguments allow
AttemptLimit == IF HasEmails /\ HasGroup THEN 1 + rule_in.max_retries
                ELSE rule_in.max_retries

\* C25: send_message_fpt makes a bounded number of HTTP attempts: at most
\* max_retries with only emails or only a group id, one email attempt and
\* then at most max_retries group attempts with both; it returns (True,
\* response) at the first 200 without a further attempt, (False, last error)
\* when the attempts are exhausted, and (False, error) without any attempt
\* when the bot id is empty or neither emails nor group id is given
C25_BoundedAttempts ==
    Returned =>
      LET calls == rule_out.calls
          n == Len(calls)
      IN /\ \A i \in DOMAIN calls : calls[i].answer = rule_in.answers[i]
         /\ ~HasBot \/ (~HasEmails /\ ~HasGroup)
               => ~rule_out.ok /\ n = 0
                  /\ rule_out.body \in {"Missing FPT_CHAT_BOT_ID", "No recipients"}
         /\ HasBot /\ HasEmails /\ ~HasGroup
               => n <= rule_in.max_retries /\ Via(calls, "emails") = DOMAIN calls
         /\ HasBot /\ ~HasEmails /\ HasGroup
               => n <= rule_in.max_retries /\ Via(calls, "group") = DOMAIN calls
         /\ HasBot /\ HasEmails /\ HasGroup
               => /\ Via(calls, "emails") = {1}
                  /\ Cardinality(Via(calls, "group")) <= rule_in.max_retries
         /\ \A i \in DOMAIN calls : calls[i].answer = "200" => i = n
         /\ rule_out.ok <=> n > 0 /\ calls[n].answer = "200"
         /\ rule_out.ok => rule_out.body = "response"
         /\ HasBot /\ (HasEmails \/ HasGroup) /\ ~rule_out.ok
               => /\ n = AttemptLimit
                  /\ rule_out.body = IF n = 0 THEN "{}" ELSE calls[n].answer

\* both channels given: the email attempt fails, the group attempts fail
\* once and then succeed, one attempt before the limit
C25_Witness ==
    /\ Returned /\ HasBot /\ HasEmails /\ HasGroup
    /\ rule_in.max_retries = MaxRetries
    /\ rule_out.ok
    /\ rule_out.calls = << Call("emails", "500"), Call("group", "RequestException"),
                           Call("group", "200") >>

(***************************************************************************)
(* build_task_object.                                                      *)
(***************************************************************************)
RawFields == rule_in.issue.d.fields
\* the field is missing from the raw issue, or null
Lacks(name) == name \notin DOMAIN RawFields.d \/ RawFields.d[name] = PyNone
\* the field is a dict that holds the key with the value null
NullInside(name, key) ==
    /\ ~Lacks(name)
    /\ RawFields.d[name].type = "dict"
    /\ key \in DOMAIN RawFields.d[name].d
    /\ RawFields.d[name].d[key] = PyNone
NullComponentName ==
    /\ ~Lacks("components")
    /\ \E i \in DOMAIN RawFields.d.components.items :
          LET c == RawFields.d.components.items[i]
          IN c.type = "dict" /\ "name" \in DOMAIN c.d /\ c.d.name = PyNone
\* the values the task record holds for what the raw issue lacks
DefaultsForAbsent ==
    /\ Lacks("project") => rule_out.project = PyStr(<< >>)
    /\ Lacks("assignee") \/ NullInside("assignee", "emailAddress")
          => rule_out.assignee_email = PyStr(<< >>)
    /\ Lacks("reporter") \/ NullInside("reporter", "emailAddress")
          => rule_out.reporter_email = PyStr(<< >>)
    /\ Lacks("components") => rule_out.components = << >>
    /\ Lacks("fixVersions")
          => rule_out.fixVersions = << >> /\ rule_out.fixVersion_dates = << >>
    /\ Lacks("description") => rule_out.description = PyNone

\* C26: build_task_object raises on no raw issue in which assignee, reporter,
\* project, components, fixVersions or description, or a field inside them,
\* is missing or null, and returns a task record whose corresponding values
\* are the empty string, None or an empty list
C26_NormalizerNeverRaises ==
    Returned => rule_out.raised = "no" /\ DefaultsForAbsent

\* it raises only for a null project key, and for a null component name in
\* project FC; every record it returns has the defaults
C26_RaisesOnNullKey ==
    Returned =>
      IF rule_out.raised = "no" THEN DefaultsForAbsent
      ELSE \/ NullInside("project", "key")
           \/ NullComponentName /\ ~Lacks("project")
                /\ get(RawFields.d.project, "key", PyNone) = PyStr(FC)

\* an issue that lacks every one of the six fields has been normalized
C26_AllAbsent ==
    /\ Returned /\ rule_out.raised = "no"
    /\ \A name \in {"project", "assignee", "reporter", "components", "fixVersions",
                      "description"} : Lacks(name)

(***************************************************************************)
(* The thread pool and the sequential loop.                                *)
(***************************************************************************)
DistinctKeys ==
    \A i, j \in DOMAIN tasks : tasks[i].key = tasks[j].key => i = j
\* the records collected for the task at position i, in the order collected
CollectedFor(i) == SelectSeq(all_records, LAMBDA r : r.task_key = tasks[i].key)
\* ok and db_ok are the outcomes the task at position i met when it ran
SameOutcomes(i, ok, db_ok) ==
    /\ \A k \in DOMAIN dispatched :
          dispatched[k].idx = i
            => /\ ok[dispatched[k].to] = dispatched[k].ok
               /\ db_ok[dispatched[k].to] = dispatched[k].db_ok
    /\ \A s \in skipped :
          s.idx = i /\ s.reason # "test_email" => db_ok[s.to] = s.db_ok
\* what process_task returns for the task at position i when it runs alone
\* against the history the cycle loaded
Alone(i, ok, db_ok) == process_task(history_rows, db, i, tasks[i], ok, db_ok)

SentRowsOf(store) ==
    { i \in DOMAIN store : /\ store[i].source = "reminder_bot"
                           /\ store[i].json
                           /\ store[i].status = "sent" }
\* the local calendar day of a row (created_at is a local wall clock)
DayOfRow(row) == row.created_at.wall \div DayHours
OneSentPerDay(store) ==
    \A i, j \in SentRowsOf(store) :
       /\ store[i].task_key = store[j].task_key
       /\ store[i].rule_type = store[j].rule_type
       /\ DayOfRow(store[i]) = DayOfRow(store[j])
       => i = j
\* a sent record of the task and rule was written on today's local date
SentToday(key, code) ==
    \E i \in SentRowsOf(db) :
       /\ db[i].task_key = key
       /\ db[i].rule_type = code
       /\ DayOfRow(db[i]) = (now + VN_OFFSET) \div DayHours
\* the step that ends a cycle whose task list has distinct keys and whose
\* records are all persisted, the table having one sent record per day so far
PersistsAll ==
    /\ pc = "process" /\ pc' = "done"
    /\ DistinctKeys
    /\ Len(db') = Len(db) + Len(all_records)
    /\ OneSentPerDay(db)
\* no group of the cycle was dispatched with a rule already sent today
NoneSentAgain ==
    \A k \in DOMAIN dispatched :
       \A n \in DOMAIN dispatched[k].rules :
          ~SentToday(dispatched[k].task_key, dispatched[k].rules[n])
\* every same-day check behind a dispatch of the cycle could read the table
ChecksReadTable ==
    \A k \in DOMAIN dispatched : dispatched[k].db_ok

OfIptpeOrTads(task) ==
    Listed(task.project, { << "I", "P", "T", "P", "E" >>, TADS })
Overdue(task) == DueParseable(task.duedate) /\ Today > DueDate(task.duedate)

\* C29: with the scoping tables as configured, a task of project IPTPE or
\* TADS never gets a missing_logtime, pre_version_reminder or
\* post_version_alert finding; due_date_overdue hits for an overdue task of
\* project TADS and hits for no task of another project
C29_ConfiguredScoping ==
    Evaluated =>
       LET task == rule_in.task
       IN /\ OfIptpeOrTads(task)
               => \A code \in {MISSING_LOGTIME, PRE_VERSION_REMINDER, POST_VERSION_ALERT} :
                     Result(code).kind # "hit"
          /\ Result(DUE_DATE_OVERDUE).kind = "hit" => OfIptpeOrTads(task)
          /\ Listed(task.project, {TADS}) /\ Overdue(task)
               => Result(DUE_DATE_OVERDUE).kind = "hit"

\* what the tables do as configured: the one project they name is the text
\* "IPTPE,TADS"; due_date_overdue hits for that project only, and never for
\* IPTPE or TADS
C29_JoinedNameOnly ==
    Evaluated =>
       LET task == rule_in.task
       IN /\ Result(DUE_DATE_OVERDUE).kind = "hit" => Listed(task.project, {IPTPE_TADS})
          /\ OfIptpeOrTads(task) => Result(DUE_DATE_OVERDUE) = NoHit

\* a task of project TADS got a missing_logtime finding, and an overdue
\* task of project TADS got no due_date_overdue finding
C29_TadsLogtimeHit ==
    /\ Evaluated
    /\ rule_in.task.project = PyStr(TADS)
    /\ Result(MISSING_LOGTIME).kind = "hit"
C29_TadsOverdueNoHit ==
    /\ Evaluated
    /\ rule_in.task.project = PyStr(TADS)
    /\ Overdue(rule_in.task)
    /\ Result(DUE_DATE_OVERDUE) = NoHit

(***************************************************************************)
(* The wait window of missing_logtime on timestamps as Jira writes them.   *)
(***************************************************************************)
\* the task is in READY CI TESTING without worklog, its status changed less
\* than the wait ago, and the timestamp, of the given form, is the one the
\* normalizer stored
FreshInCiTesting(form) ==
    LET task == rule_in.task
        stamp == task.last_status_changed_at
    IN /\ IsReadyCiTesting(task)
       /\ ~task.has_worklog
       /\ stamp.type = "str" /\ stamp.form = form
       /\ last_status_change(stamp) = stamp
       /\ Age(stamp.dt) < rule_in.conf.ci_testing_wait

\* C30: for a normalized task in READY CI TESTING without worklog whose
\* status-change timestamp is a Jira timestamp, with fractional seconds and
\* a UTC offset, less than ci_testing_wait old, evaluate_missing_logtime
\* returns no hit
C30_WaitWindowEndToEnd ==
    Evaluated /\ FreshInCiTesting("frac_tz")
       => Result(MISSING_LOGTIME).kind = "none"

\* the window is respected for timestamps with whole seconds and an offset
C30_WholeSeconds ==
    Evaluated /\ FreshInCiTesting("sec_tz")
       => Result(MISSING_LOGTIME).kind = "none"

\* a task that entered READY CI TESTING within the wait, with a Jira
\* timestamp, has been evaluated and hit
C30_FreshTaskHit ==
    /\ Evaluated /\ FreshInCiTesting("frac_tz")
    /\ Age(rule_in.task.last_status_changed_at.dt) = 0
    /\ Result(MISSING_LOGTIME).kind = "hit"
====
